---- MODULE Spec2Model ----
(***************************************************************************)
(* ASTRA-CARE dashboard client: the session store, API gateway, view       *)
(* router and optimistic chat pipeline of the two application variants.    *)
(*                                                                         *)
(*   variant = "open"  src/frontend/src/App.js  (role toggle, no login)    *)
(*   variant = "auth"  src/unnamed/part_000     (token session, login)     *)
(*                                                                         *)
(* The UI is a single-threaded event loop: one action is one event handler *)
(* or one promise continuation, run up to its next await.  A request in    *)
(* flight is an entry of reqs (or a crew loader); its response is a later  *)
(* action whose status is chosen by the backend.  window.location.reload() *)
(* raises reloadPending inside the handler that calls it; the page load    *)
(* (Reload) is then the only step that can follow.                         *)
(***************************************************************************)
EXTENDS Integers, Sequences, FiniteSets, TLC

None == "none"

\* ---- bounds ----
MaxInflight == 1      \* requests of one kind in flight at once
CrewSize == 2         \* crew ids the roster endpoint can return
MaxLoaders == 1       \* crew loading loops running at once

MaxText == 1          \* characters of a typed chat message
MaxSends == 2         \* chat sends in one run
MaxHist == 1          \* exchanges in a chat history the backend returns

MaxAlerts == 2        \* alerts in a list the backend returns
MaxAcks == 2          \* acknowledge clicks in one run
MaxPolls == 2         \* fetches of the alerts in one run

MaxConsents == 2      \* consent clicks on the scan panel in one run
MaxScans == 2         \* scans started in one run
RandSteps == 8        \* Math.random() draws k / RandSteps, k in 0 .. RandSteps - 1
MaxSubmits == 2       \* form submissions in one run
ScoreSteps == 4       \* steps between the ends of a vitals range
MaxTimeline == 3      \* timeline requests of one run

\* ---- value domains of the backend's answers ----
Tokens == {"tokA"}
Roles == {"astronaut", "supervisor", "medical"}
Users == [role : Roles]
NoUser == [role |-> None]        \* App.user = null
AuthStatuses == {"ok", "401", "err"}   \* "err": other non-2xx or network failure
OpenStatuses == {"ok", "err"}

\* prefixes of the roster 1..CrewSize
Rosters == {[i \in 1..n |-> i] : n \in 0..CrewSize}
DefaultAstronauts == <<1, 2, 3>>

\* chat texts are character sequences, so that trim() has something to do
Chars == {" ", "a"}
Texts == UNION {[1..n -> Chars] : n \in 0..MaxText}
quickPrompts == {<<"a">>}

RECURSIVE TrimLeft(_), TrimRight(_)
TrimLeft(s) == IF s = <<>> THEN s
               ELSE IF Head(s) = " " THEN TrimLeft(Tail(s)) ELSE s
TrimRight(s) == IF s = <<>> THEN s
                ELSE IF s[Len(s)] = " " THEN TrimRight(SubSeq(s, 1, Len(s) - 1)) ELSE s
\* String.prototype.trim
trim(s) == TrimRight(TrimLeft(s))

Exchange(id, msg, resp) == [id |-> id, user_message |-> msg, assistant_response |-> resp]

\* histories the backend can return: stored exchanges have ids -1, -2, ...; a
\* stored exchange may lack its response
ServerHistories ==
  UNION {{[i \in 1..n |-> Exchange(0 - i, <<"a">>, r[i])] : r \in [1..n -> {"reply", None}]}
         : n \in 0..MaxHist}

\* alerts: the client sets status to the action's name (App.js:1338)
AlertActions == {"acknowledged", "dismissed", "escalated"}
AlertStatuses == {"active"} \cup AlertActions
Alert(i, st) == [id |-> i, level |-> i, status |-> st, message |-> "m", factors |-> <<>>]
\* alert lists the backend can return: each alert still active or settled
ServerStatuses == {"active", "dismissed"}
ServerAlerts ==
  UNION {{[i \in 1..n |-> Alert(i, st[i])] : st \in [1..n -> ServerStatuses]}
         : n \in 0..MaxAlerts}

BaseViews == {"dashboard", "health", "facial", "timeline", "chat", "alerts", "context"}
AllViews == BaseViews \cup {"crew"}
\* for the chat component every other view is the same: it is unmounted
ChatViews == {"dashboard", "chat"}

ReqKinds == {"getMe", "login", "register", "summary", "summaryStale", "call",
             "loadData", "generate"}

VARIABLES
  variant,        \* which application file runs
  token,          \* api.token
  durable,        \* localStorage 'astra_token'
  user,           \* App.user (auth)
  loading,        \* App.loading
  checkPc,        \* position of the startup effect (checkAuth)
  isLogin,        \* LoginPage.isLogin
  loginLoading,   \* LoginPage.loading
  loginError,     \* LoginPage.error
  currentView,    \* App.currentView (open) / Dashboard.currentView (auth)
  dashLoading,    \* Dashboard.loading (auth)
  userRole,       \* App.userRole (open)
  astronauts,     \* App.astronauts (open)
  reqs,           \* requests in flight, by kind
  crew,           \* running loadCrew / loadCrewData loops
  reloadPending,  \* window.location.reload() has been called
  lastOp,         \* observer: the handler that ran last ("other" where no property names it)
  lastStatus,     \* observer: the response status it handled
  crewIssue,      \* observer: the last step issued a per-crew fetch
  sessionBy,      \* observer: what established the current session
  attempt,        \* observer: outcome of the last login/register submit
  pre,            \* observer: token, durable, user at that submit
  after401,       \* observer: the page was reloaded by a 401
  chatHistory,    \* App.chatHistory (open)
  messages,       \* AstraSupport.messages (auth)
  chatInput,      \* SupportChat.message (open) / AstraSupport.input (auth)
  sending,        \* SupportChat.sending / AstraSupport.sending
  sends,          \* sendChat requests in flight, with what their handler closed over
  histReqs,       \* auth: getChatHistory requests in flight (loadHistory)
  batches,        \* open: loadAstronautData batches in flight
  sendSeq,        \* number of sends so far (the clock behind Date.now())
  chatDone,       \* observer: the send that settled in the last step
  alerts,         \* App.alerts (open) / dashboardData.alerts (auth)
  acks,           \* acknowledgeAlert requests in flight, with what their handler closed over
  ackSeq,         \* number of acknowledge clicks so far
  polls,          \* fetches of the alerts in flight (polling cycle, refresh)
  pollSeq,        \* number of such fetches started so far
  applied,        \* observer: the fetch whose alerts were applied last
  newest,         \* observer: the newest fetch whose response was applied so far
  ackDone,        \* observer: the acknowledge request that settled in the last step
  healthData,     \* App.healthData (open)
  timeline,       \* App.timeline (open)
  baseline,       \* App.baseline (open)
  context,        \* App.context (open)
  batch,          \* open: the loadAstronautData batch in flight, fetch by fetch
  lastFetch,      \* observer: the fetch of the batch that settled in the last step
  batchDone,      \* observer: the batch that was applied in the last step
  consent,        \* FacialScan.consent / BiometricScan.consent
  scanning,       \* FacialScan.scanning / BiometricScan.scanning
  results,        \* .results: 0 for null, else the number of the scan that produced them
  cameraError,    \* .cameraError: TRUE for a message, FALSE for null
  srcObject,      \* videoRef.current.srcObject: the attached stream, 0 for none
  streams,        \* camera streams with running tracks
  camReqs,        \* getUserMedia requests waiting for the permission decision
  scans,          \* performScan calls in flight, with their position
  camSeq,         \* number of consent clicks so far
  scanSeq,        \* number of scans started so far
  facialData,     \* Dashboard.facialData (auth): 0 for null, else the scan's number
  stopped,        \* observer: the stop button was the panel's last consent change
  rand,           \* the Math.random() draws of one synthesized scan result
  simulated,      \* simulatedResults of one performScan
  manualEntry,    \* HealthMonitor.manualEntry (open) / VitalsMonitor.formData (auth)
  submitting,     \* HealthMonitor.submitting / VitalsMonitor.submitting
  formData,       \* MissionContext.formData (open) / MissionStatus.formData (auth)
  editing,        \* MissionContext.editing / MissionStatus.editing
  submits,        \* ingestHealth and updateContext requests in flight
  formSeq,        \* number of form submissions so far
  formDone,       \* observer: the form submission that settled last
  astronautId,    \* App.astronautId (open): the selected subject, as its place in the roster
  subjBatches,    \* open: loadAstronautData batches in flight, by the subject they fetch
  days,           \* HealthTimeline.days
  tlReqs,         \* getTimeline requests of HealthTimeline, with their outcome
  data            \* HealthTimeline.data (open) / HealthTimeline.timeline (auth)

sessVars == <<variant, token, durable, user, loading, checkPc, isLogin, loginLoading,
              loginError, currentView, dashLoading, userRole, astronauts, reqs, crew,
              reloadPending, lastOp, lastStatus, crewIssue, sessionBy, attempt, pre,
              after401>>

chatVars == <<chatHistory, messages, chatInput, sending, sends, histReqs, batches,
              sendSeq, chatDone>>

alertVars == <<alerts, acks, ackSeq, polls, pollSeq, applied, newest, ackDone>>

batchVars == <<healthData, timeline, baseline, context, batch, lastFetch, batchDone>>

scanVars == <<consent, scanning, results, cameraError, srcObject, streams, camReqs,
              scans, camSeq, scanSeq, facialData, stopped>>

drawVars == <<rand, simulated>>

formVars == <<manualEntry, submitting, formData, editing, submits, formSeq, formDone>>

restVars == <<astronautId, subjBatches, days, tlReqs, data>>

panelVars == <<alertVars, batchVars, scanVars, drawVars, formVars, restVars>>

vars == <<sessVars, chatVars, panelVars>>

\* ---- derived: what is rendered ----
Role == IF variant = "open" THEN userRole
        ELSE IF user = NoUser THEN None ELSE user.role

\* top-level view of the auth variant (part_000:122-141)
TopView == IF variant = "open" THEN "dashboard"
           ELSE IF loading THEN "loading"
           ELSE IF user # NoUser THEN "dashboard" ELSE "login"

ContentLoading == IF variant = "open" THEN loading ELSE dashLoading

\* the view switch of the content area
Rendered(v) == /\ TopView = "dashboard"
               /\ ~ContentLoading
               /\ currentView = v
               /\ (v = "crew" => Role = "supervisor")

RenderedViews == {v \in AllViews : Rendered(v)}

navItems == IF Role = "supervisor" THEN AllViews ELSE BaseViews


CrewShown == Rendered("crew")

\* ---- API gateway ----
\* mutant: the falsy branch forgets localStorage.removeItem
setTokenMut(t) == [token |-> t, durable |-> IF t # None THEN t ELSE durable]

\* api.setToken: the in-memory token and the durable key after the call
setToken(t) == [token |-> t, durable |-> IF t # None THEN t ELSE None]

\* mutant: a 401 clears the token but does not reload
apiFetchMut(st) == [clear |-> st = "401", reload |-> FALSE, throws |-> st # "ok"]

\* api.fetch of the auth variant: what a response status triggers
apiFetch(st) == [clear |-> st = "401", reload |-> st = "401", throws |-> st # "ok"]

\* token and durable key after api.fetch has handled status st
AfterFetch(st) == IF apiFetch(st).clear THEN setToken(None)
                  ELSE [token |-> token, durable |-> durable]

\* mutant: the catch of checkAuth leaves the token in place
checkAuthCatchMut == [token |-> token, durable |-> durable]

\* the catch of checkAuth (part_000:94-96)
checkAuthCatch == setToken(None)

\* mutant: logout forgets api.setToken(null)
logoutMut == [token |-> token, durable |-> durable, user |-> NoUser]

\* App.logout: the session it leaves (part_000:117-120)
logout == [token |-> setToken(None).token, durable |-> setToken(None).durable,
           user |-> NoUser]

Issue(r, k) == [r EXCEPT ![k] = @ + 1]
Settle(r, k) == [r EXCEPT ![k] = @ - 1]
NoReqs == [k \in ReqKinds |-> 0]

Min(a, b) == IF a < b THEN a ELSE b

\* requests of an unmounting Dashboard keep running; their setState calls are dropped
Orphan(r) == [r EXCEPT !["summaryStale"] = Min(MaxInflight, @ + r["summary"]),
                       !["summary"] = 0]

Loader(stage, rest, h, a) == [stage |-> stage, rest |-> rest, pendH |-> h, pendA |-> a]

\* CrewOverview's mount effect: runs when the crew view starts being rendered
\* (a step that would start a loop beyond MaxLoaders is not taken)
CrewEffect ==
  IF ~CrewShown /\ CrewShown'
  THEN IF variant = "open"
       THEN IF astronauts' = <<>>
            THEN crew' = crew /\ crewIssue' = FALSE
            ELSE /\ Cardinality(crew) < MaxLoaders
                 /\ crew' = crew \cup {Loader("pair", astronauts', TRUE, TRUE)}
                 /\ crewIssue' = TRUE
       ELSE /\ Cardinality(crew) < MaxLoaders
            /\ crew' = crew \cup {Loader("list", <<>>, FALSE, FALSE)}
            /\ crewIssue' = FALSE
  ELSE crew' = crew /\ crewIssue' = FALSE

NoSend == [status |-> "-", seq |-> 0, live |-> FALSE, pre |-> <<>>, before |-> <<>>]

\* chat state of a page that has just loaded
ChatFresh ==
  /\ chatHistory = <<>> /\ messages = <<>> /\ chatInput = <<>> /\ sending = FALSE
  /\ sends = {} /\ histReqs = {} /\ batches = 0 /\ sendSeq = 0 /\ chatDone = NoSend

NoAck == [status |-> "-", id |-> 0, action |-> "-", before |-> <<>>]
NoPoll == [gen |-> 0, data |-> <<>>]

\* alerts state of a page that has just loaded
AlertFresh ==
  /\ alerts = <<>> /\ acks = {} /\ ackSeq = 0 /\ polls = {} /\ pollSeq = 0
  /\ applied = NoPoll /\ newest = 0 /\ ackDone = NoAck

\* the six slices of loadAstronautData, in the order of its Promise.all
Slices == {"health", "timeline", "baseline", "alerts", "context", "chat"}
\* null in a slice that otherwise holds an object of cycle gen >= 1
Null == [gen |-> 0]
NoBatch == [gen |-> 0, st |-> [s \in Slices |-> "-"]]
NoFetch == [slice |-> "-", st |-> "-", gen |-> 0]
NoBatchDone == [gen |-> 0, failed |-> {}]

\* the data slices of a page that has just loaded (App.js:58-63)
BatchFresh ==
  /\ healthData = Null /\ timeline = <<>> /\ baseline = Null /\ context = Null
  /\ batch = NoBatch /\ lastFetch = NoFetch /\ batchDone = NoBatchDone

\* the scan panel of a page that has just loaded (App.js:782-787, part_000:902-906)
ScanFresh ==
  /\ consent = FALSE /\ scanning = FALSE /\ results = 0 /\ cameraError = FALSE
  /\ srcObject = 0 /\ streams = {} /\ camReqs = {} /\ scans = {}
  /\ camSeq = 0 /\ scanSeq = 0 /\ facialData = 0 /\ stopped = FALSE

\* the random draws behind the fields of simulatedResults that have a documented range
DrawFields == {"hr", "stress", "alertness", "confidence", "mood"}
NoDraw == [f \in DrawFields |-> 0]
NoResult == [made |-> FALSE]

DrawFresh == rand = NoDraw /\ simulated = NoResult

VitalFields == {"heart_rate", "hrv", "stress_level", "fatigue_level"}
\* useState of manualEntry (App.js:545-550) and of formData (part_000:787)
EmptyEntry == [f \in VitalFields |-> ""]
\* useState of formData with no context loaded (App.js:1497-1503, part_000:1355-1361)
DefaultForm == [mission_phase |-> "transit", time_of_day |-> "morning",
                work_cycle |-> "active", days_since_launch |-> 1,
                current_workload |-> "moderate"]
NoSubmit == [status |-> "-", kind |-> "-", live |-> FALSE, seq |-> 0]

\* the two forms of a page that has just loaded
FormFresh ==
  /\ manualEntry = EmptyEntry /\ submitting = FALSE
  /\ formData = DefaultForm /\ editing = FALSE
  /\ submits = {} /\ formSeq = 0 /\ formDone = NoSubmit

\* no request in flight for the subject selector and the timeline view
NoTimeline == [days |-> 0, subj |-> 0]

\* subject and timeline view of a page that has just loaded (App.js:52, 1045-1046)
RestFresh ==
  /\ astronautId = 1 /\ subjBatches = {}
  /\ days = 7 /\ tlReqs = {} /\ data = NoTimeline

PanelFresh == AlertFresh /\ BatchFresh /\ ScanFresh /\ DrawFresh /\ FormFresh /\ RestFresh

\* ---- initial state: the page has loaded, no effect has run yet ----
Init ==
  /\ variant \in {"open", "auth"}
  /\ durable \in (IF variant = "auth" THEN {None} \cup Tokens ELSE {None})
  /\ token = durable
  /\ user = NoUser
  /\ loading = TRUE
  /\ checkPc = "start"
  /\ isLogin = TRUE /\ loginLoading = FALSE /\ loginError = ""
  /\ currentView = "dashboard"
  /\ dashLoading = TRUE
  /\ userRole = "astronaut"
  /\ astronauts = <<>>
  /\ reqs = IF variant = "open" THEN Issue(NoReqs, "loadData") ELSE NoReqs
  /\ crew = {}
  /\ reloadPending = FALSE
  /\ lastOp = "init" /\ lastStatus = "-" /\ crewIssue = FALSE
  /\ sessionBy = "none" /\ attempt = "none"
  /\ pre = [token |-> None, durable |-> None, user |-> NoUser]
  /\ after401 = FALSE
  /\ ChatFresh
  /\ PanelFresh

\* ---- auth variant: App ----
\* checkAuth up to its await (part_000:88-101)
CheckAuth ==
  /\ UNCHANGED <<chatVars, panelVars>>
  /\ variant = "auth" /\ ~reloadPending /\ checkPc = "start"
  /\ IF token # None
     THEN /\ reqs' = Issue(reqs, "getMe")
          /\ checkPc' = "await"
          /\ loading' = loading
     ELSE /\ reqs' = reqs
          /\ checkPc' = "done"
          /\ loading' = FALSE
  /\ lastOp' = "checkAuth" /\ lastStatus' = "-"
  /\ UNCHANGED <<variant, token, durable, user, isLogin, loginLoading, loginError,
                 currentView, dashLoading, userRole, astronauts, crew, reloadPending,
                 crewIssue, sessionBy, attempt, pre, after401>>

\* the rest of checkAuth, when getMe settles
GetMeResp(st) ==
  /\ UNCHANGED <<chatVars, panelVars>>
  /\ variant = "auth" /\ ~reloadPending /\ checkPc = "await" /\ reqs["getMe"] > 0
  /\ st \in AuthStatuses
  /\ checkPc' = "done"
  /\ loading' = FALSE
  /\ IF st = "ok"
     THEN /\ \E u \in Users : user' = u
          /\ token' = token /\ durable' = durable
          /\ reqs' = Issue(Settle(reqs, "getMe"), "summary")
          /\ sessionBy' = "restore"
          /\ reloadPending' = reloadPending
     ELSE /\ user' = user
          /\ token' = checkAuthCatch.token
          /\ durable' = checkAuthCatch.durable
          /\ reqs' = Settle(reqs, "getMe")
          /\ sessionBy' = sessionBy
          /\ reloadPending' = apiFetch(st).reload
  /\ lastOp' = "getMeResp" /\ lastStatus' = st
  /\ UNCHANGED <<variant, isLogin, loginLoading, loginError, currentView, dashLoading,
                 userRole, astronauts, crew, crewIssue, attempt, pre, after401>>

\* LoginPage tab switcher
SetIsLogin(b) ==
  /\ UNCHANGED <<chatVars, panelVars>>
  /\ variant = "auth" /\ ~reloadPending /\ TopView = "login"
  /\ b \in BOOLEAN /\ b # isLogin
  /\ isLogin' = b
  /\ lastOp' = "other" /\ lastStatus' = "-"
  /\ UNCHANGED <<variant, token, durable, user, loading, checkPc, loginLoading,
                 loginError, currentView, dashLoading, userRole, astronauts, reqs, crew,
                 reloadPending, crewIssue, sessionBy, attempt, pre, after401>>

\* the busy flag a handler leaves when its request has settled with st: the
\* setter follows the try/catch, so it runs for a failure as for a success
\* (part_000:157-171, 925-958, 1163-1180; App.js:553-571)
BusyAfterMut(st) == st # "ok"
BusyAfter(st) == FALSE

\* LoginPage.handleSubmit up to its await (part_000:157-166); the button is
\* disabled while LoginPage.loading
HandleSubmit ==
  /\ UNCHANGED <<chatVars, panelVars>>
  /\ variant = "auth" /\ ~reloadPending /\ TopView = "login"
  /\ ~loginLoading
  /\ reqs[IF isLogin THEN "login" ELSE "register"] < MaxInflight
  /\ loginLoading' = TRUE
  /\ loginError' = ""
  /\ reqs' = Issue(reqs, IF isLogin THEN "login" ELSE "register")
  /\ attempt' = "pending"
  /\ pre' = [token |-> token, durable |-> durable, user |-> user]
  /\ after401' = FALSE
  /\ lastOp' = "other" /\ lastStatus' = "-"
  /\ UNCHANGED <<variant, token, durable, user, loading, checkPc, isLogin, currentView,
                 dashLoading, userRole, astronauts, crew, reloadPending, crewIssue,
                 sessionBy>>

\* App.login / App.register after the await, then the rest of handleSubmit
AuthResp(k, st) ==
  /\ UNCHANGED <<chatVars, panelVars>>
  /\ variant = "auth" /\ ~reloadPending
  /\ k \in {"login", "register"} /\ reqs[k] > 0
  /\ st \in AuthStatuses
  /\ IF st = "ok"
     THEN /\ \E tok \in Tokens : /\ token' = setToken(tok).token
                                 /\ durable' = setToken(tok).durable
          /\ \E u \in Users : user' = u
          /\ sessionBy' = k
          /\ attempt' = "ok"
          /\ reloadPending' = reloadPending
          /\ isLogin' = TRUE /\ loginLoading' = FALSE /\ loginError' = ""
          /\ IF user = NoUser
             THEN /\ currentView' = "dashboard"
                  /\ dashLoading' = TRUE
                  /\ reqs' = Issue(Settle(reqs, k), "summary")
             ELSE /\ currentView' = currentView
                  /\ dashLoading' = dashLoading
                  /\ reqs' = Settle(reqs, k)
     ELSE /\ token' = AfterFetch(st).token
          /\ durable' = AfterFetch(st).durable
          /\ user' = user
          /\ sessionBy' = sessionBy
          /\ attempt' = "failed"
          /\ reloadPending' = apiFetch(st).reload
          /\ isLogin' = isLogin
          /\ loginLoading' = BusyAfter(st)
          /\ loginError' = IF TopView = "login" THEN "API Error" ELSE loginError
          /\ currentView' = currentView
          /\ dashLoading' = dashLoading
          /\ reqs' = Settle(reqs, k)
  /\ lastOp' = "other" /\ lastStatus' = st
  /\ UNCHANGED <<variant, loading, checkPc, userRole, astronauts, pre, after401>>
  /\ CrewEffect

\* App.logout (part_000:117-120); the Dashboard unmounts, a fresh LoginPage mounts
Logout ==
  /\ UNCHANGED <<chatVars, panelVars>>
  /\ variant = "auth" /\ ~reloadPending /\ TopView = "dashboard"
  /\ token' = logout.token
  /\ durable' = logout.durable
  /\ user' = logout.user
  /\ currentView' = "dashboard" /\ dashLoading' = TRUE
  /\ isLogin' = TRUE /\ loginLoading' = FALSE /\ loginError' = ""
  /\ reqs' = Orphan(reqs)
  /\ lastOp' = "logout" /\ lastStatus' = "-"
  /\ UNCHANGED <<variant, loading, checkPc, userRole, astronauts, reloadPending,
                 sessionBy, attempt, pre, after401>>
  /\ CrewEffect

\* ---- auth variant: Dashboard ----
\* loadDashboardData up to its await: interval tick or refresh (part_000:319-336, 431)
Poll ==
  /\ UNCHANGED <<chatVars, panelVars>>
  /\ variant = "auth" /\ ~reloadPending /\ TopView = "dashboard"
  /\ reqs["summary"] < MaxInflight
  /\ reqs' = Issue(reqs, "summary")
  /\ lastOp' = "other" /\ lastStatus' = "-" /\ crewIssue' = FALSE
  /\ UNCHANGED <<variant, token, durable, user, loading, checkPc, isLogin, loginLoading,
                 loginError, currentView, dashLoading, userRole, astronauts, crew,
                 reloadPending, sessionBy, attempt, pre, after401>>

\* the rest of loadDashboardData; live = its Dashboard is still mounted
SummaryResp(live, st) ==
  /\ UNCHANGED <<chatVars, panelVars>>
  /\ variant = "auth" /\ ~reloadPending
  /\ live \in BOOLEAN /\ st \in AuthStatuses
  /\ reqs[IF live THEN "summary" ELSE "summaryStale"] > 0
  /\ reqs' = Settle(reqs, IF live THEN "summary" ELSE "summaryStale")
  /\ token' = AfterFetch(st).token
  /\ durable' = AfterFetch(st).durable
  /\ reloadPending' = apiFetch(st).reload
  /\ dashLoading' = IF live THEN FALSE ELSE dashLoading
  /\ lastOp' = "other" /\ lastStatus' = st
  /\ UNCHANGED <<variant, user, loading, checkPc, isLogin, loginLoading, loginError,
                 currentView, userRole, astronauts, sessionBy, attempt, pre, after401>>
  /\ CrewEffect

\* any other api call of a dashboard view (form submit, chat send, scan store,
\* alert acknowledge), up to its await
Call ==
  /\ UNCHANGED <<chatVars, panelVars>>
  /\ variant = "auth" /\ ~reloadPending /\ TopView = "dashboard" /\ ~dashLoading
  /\ reqs["call"] < MaxInflight
  /\ reqs' = Issue(reqs, "call")
  /\ lastOp' = "other" /\ lastStatus' = "-" /\ crewIssue' = FALSE
  /\ UNCHANGED <<variant, token, durable, user, loading, checkPc, isLogin, loginLoading,
                 loginError, currentView, dashLoading, userRole, astronauts, crew,
                 reloadPending, sessionBy, attempt, pre, after401>>

\* api.fetch settling that call (part_000:38-49)
CallResp(st) ==
  /\ UNCHANGED <<chatVars, panelVars>>
  /\ variant = "auth" /\ ~reloadPending
  /\ st \in AuthStatuses /\ reqs["call"] > 0
  /\ reqs' = Settle(reqs, "call")
  /\ token' = AfterFetch(st).token
  /\ durable' = AfterFetch(st).durable
  /\ reloadPending' = apiFetch(st).reload
  /\ lastOp' = "other" /\ lastStatus' = st /\ crewIssue' = FALSE
  /\ UNCHANGED <<variant, user, loading, checkPc, isLogin, loginLoading, loginError,
                 currentView, dashLoading, userRole, astronauts, crew, sessionBy,
                 attempt, pre, after401>>

\* ---- both variants: view router ----
\* a click on a navigation item (App.js:154-168, part_000:380-391)
Nav(v) ==
  /\ ~reloadPending /\ TopView = "dashboard"
  /\ v \in navItems /\ v # currentView
  /\ currentView' = v
  /\ lastOp' = "other" /\ lastStatus' = "-"
  /\ UNCHANGED <<variant, token, durable, user, loading, checkPc, isLogin, loginLoading,
                 loginError, dashLoading, userRole, astronauts, reqs, reloadPending,
                 sessionBy, attempt, pre, after401>>
  /\ CrewEffect

\* the click, as far as the router and the crew view are concerned
NavClick(v) ==
  /\ UNCHANGED <<chatVars, panelVars>>
  /\ Nav(v)

\* ---- open variant: App ----
\* the role toggle (App.js:209-217)
ToggleRole ==
  /\ UNCHANGED <<chatVars, panelVars>>
  /\ variant = "open" /\ ~reloadPending
  /\ userRole' = IF userRole = "astronaut" THEN "supervisor" ELSE "astronaut"
  /\ lastOp' = "other" /\ lastStatus' = "-"
  /\ UNCHANGED <<variant, token, durable, user, loading, checkPc, isLogin, loginLoading,
                 loginError, currentView, dashLoading, astronauts, reqs, reloadPending,
                 sessionBy, attempt, pre, after401>>
  /\ CrewEffect

\* loadData after Promise.all settles (App.js:69-82)
LoadDataResp(st) ==
  /\ UNCHANGED <<chatVars, panelVars>>
  /\ variant = "open" /\ ~reloadPending
  /\ st \in OpenStatuses /\ reqs["loadData"] > 0
  /\ reqs' = Settle(reqs, "loadData")
  /\ IF st = "ok"
     THEN \E present \in BOOLEAN, lst \in Rosters :
            astronauts' = IF present THEN lst ELSE DefaultAstronauts
     ELSE astronauts' = astronauts
  /\ loading' = FALSE
  /\ lastOp' = "other" /\ lastStatus' = st
  /\ UNCHANGED <<variant, token, durable, user, checkPc, isLogin, loginLoading,
                 loginError, currentView, dashLoading, userRole, reloadPending,
                 sessionBy, attempt, pre, after401>>
  /\ CrewEffect

\* Dashboard.generateDemoData up to its await (App.js:308-311); the button is
\* disabled while generating (App.js:376)
Generate ==
  /\ UNCHANGED <<chatVars, panelVars>>
  /\ variant = "open" /\ ~reloadPending /\ Rendered("dashboard")
  /\ reqs["generate"] = 0 /\ reqs["generate"] < MaxInflight
  /\ reqs' = Issue(reqs, "generate")
  /\ lastOp' = "other" /\ lastStatus' = "-" /\ crewIssue' = FALSE
  /\ UNCHANGED <<variant, token, durable, user, loading, checkPc, isLogin, loginLoading,
                 loginError, currentView, dashLoading, userRole, astronauts, crew,
                 reloadPending, sessionBy, attempt, pre, after401>>

\* the rest of generateDemoData: a success reloads the page (App.js:312-317)
GenerateResp(st) ==
  /\ UNCHANGED <<chatVars, panelVars>>
  /\ variant = "open" /\ ~reloadPending
  /\ st \in OpenStatuses /\ reqs["generate"] > 0
  /\ reqs' = Settle(reqs, "generate")
  /\ reloadPending' = (st = "ok")
  /\ lastOp' = "other" /\ lastStatus' = st /\ crewIssue' = FALSE
  /\ UNCHANGED <<variant, token, durable, user, loading, checkPc, isLogin, loginLoading,
                 loginError, currentView, dashLoading, userRole, astronauts, crew,
                 sessionBy, attempt, pre, after401>>

\* ---- crew overview loops ----
\* the loop after one id is done: fetch the next id or finish
CrewAdvance(l) ==
  IF Len(l.rest) > 1
  THEN /\ crew' = (crew \ {l}) \cup {Loader(l.stage, Tail(l.rest), l.stage = "pair",
                                            l.stage = "pair")}
       /\ crewIssue' = TRUE
  ELSE /\ crew' = crew \ {l}
       /\ crewIssue' = FALSE

\* auth: loadCrew after getAstronauts settles (part_000:1442-1456)
CrewListResp(l, st) ==
  /\ UNCHANGED <<chatVars, panelVars>>
  /\ variant = "auth" /\ ~reloadPending
  /\ l \in crew /\ l.stage = "list" /\ st \in AuthStatuses
  /\ token' = AfterFetch(st).token
  /\ durable' = AfterFetch(st).durable
  /\ reloadPending' = apiFetch(st).reload
  /\ IF st = "ok"
     THEN \E lst \in Rosters :
            IF lst = <<>>
            THEN crew' = crew \ {l} /\ crewIssue' = FALSE
            ELSE /\ crew' = (crew \ {l}) \cup {Loader("summary", lst, FALSE, FALSE)}
                 /\ crewIssue' = TRUE
     ELSE crew' = crew \ {l} /\ crewIssue' = FALSE
  /\ lastOp' = "other" /\ lastStatus' = st
  /\ UNCHANGED <<variant, user, loading, checkPc, isLogin, loginLoading, loginError,
                 currentView, dashLoading, userRole, astronauts, reqs, sessionBy,
                 attempt, pre, after401>>

\* auth: loadCrew after one getDashboardSummary(id) settles; a failure is caught
\* per id and the loop goes on (part_000:1448-1453)
CrewSummaryResp(l, st) ==
  /\ UNCHANGED <<chatVars, panelVars>>
  /\ variant = "auth" /\ ~reloadPending
  /\ l \in crew /\ l.stage = "summary" /\ st \in AuthStatuses
  /\ token' = AfterFetch(st).token
  /\ durable' = AfterFetch(st).durable
  /\ reloadPending' = apiFetch(st).reload
  /\ CrewAdvance(l)
  /\ lastOp' = "other" /\ lastStatus' = st
  /\ UNCHANGED <<variant, user, loading, checkPc, isLogin, loginLoading, loginError,
                 currentView, dashLoading, userRole, astronauts, reqs, sessionBy,
                 attempt, pre, after401>>

\* open: one fetch of the pair getLatestHealth(id), getAlerts(id) settles; both
\* have their own catch, so the status does not matter (App.js:1700-1716)
CrewPairResp(l, which) ==
  /\ UNCHANGED <<chatVars, panelVars>>
  /\ variant = "open" /\ ~reloadPending
  /\ l \in crew /\ l.stage = "pair" /\ which \in {"health", "alerts"}
  /\ IF which = "health" THEN l.pendH ELSE l.pendA
  /\ LET h == l.pendH /\ which # "health"
         a == l.pendA /\ which # "alerts"
     IN IF h \/ a
        THEN /\ crew' = (crew \ {l}) \cup {Loader("pair", l.rest, h, a)}
             /\ crewIssue' = FALSE
        ELSE CrewAdvance(l)
  /\ lastOp' = "other" /\ lastStatus' = "-"
  /\ UNCHANGED <<variant, token, durable, user, loading, checkPc, isLogin, loginLoading,
                 loginError, currentView, dashLoading, userRole, astronauts, reqs,
                 reloadPending, sessionBy, attempt, pre, after401>>

\* ---- the page load that window.location.reload() asked for ----
PageLoad ==
  /\ reloadPending
  /\ variant' = variant
  /\ durable' = durable
  /\ token' = durable
  /\ user' = NoUser
  /\ loading' = TRUE
  /\ checkPc' = "start"
  /\ isLogin' = TRUE /\ loginLoading' = FALSE /\ loginError' = ""
  /\ currentView' = "dashboard"
  /\ dashLoading' = TRUE
  /\ userRole' = "astronaut"
  /\ astronauts' = <<>>
  /\ reqs' = IF variant = "open" THEN Issue(NoReqs, "loadData") ELSE NoReqs
  /\ crew' = {}
  /\ reloadPending' = FALSE
  /\ lastOp' = "reload" /\ lastStatus' = "-" /\ crewIssue' = FALSE
  /\ after401' = (variant = "auth")
  /\ UNCHANGED <<sessionBy, attempt, pre>>

Reload ==
  /\ PageLoad
  /\ UNCHANGED <<chatVars, panelVars>>

Next ==
  \/ CheckAuth
  \/ \E st \in AuthStatuses : GetMeResp(st)
  \/ \E b \in BOOLEAN : SetIsLogin(b)
  \/ HandleSubmit
  \/ \E k \in {"login", "register"}, st \in AuthStatuses : AuthResp(k, st)
  \/ Logout
  \/ Poll
  \/ \E live \in BOOLEAN, st \in AuthStatuses : SummaryResp(live, st)
  \/ Call
  \/ \E st \in AuthStatuses : CallResp(st)
  \/ \E v \in AllViews : NavClick(v)
  \/ ToggleRole
  \/ \E st \in OpenStatuses : LoadDataResp(st)
  \/ Generate
  \/ \E st \in OpenStatuses : GenerateResp(st)
  \/ \E l \in crew, st \in AuthStatuses : CrewListResp(l, st)
  \/ \E l \in crew, st \in AuthStatuses : CrewSummaryResp(l, st)
  \/ \E l \in crew, which \in {"health", "alerts"} : CrewPairResp(l, which)
  \/ Reload

Spec == Init /\ [][Next]_vars

\* ---- the auth variant alone, with the scheduling the browser guarantees: the
\* startup effect runs, the current-user fetch settles, a requested reload happens
\* (of the requests made after startup the summary fetch and the crew fetches
\* stand for the rest: each can answer 401 and so ask for the reload)
InitAuth == Init /\ variant = "auth"

NextAuth ==
  \/ CheckAuth
  \/ \E st \in AuthStatuses : GetMeResp(st)
  \/ \E b \in BOOLEAN : SetIsLogin(b)
  \/ HandleSubmit
  \/ \E k \in {"login", "register"}, st \in AuthStatuses : AuthResp(k, st)
  \/ Logout
  \/ Poll
  \/ \E live \in BOOLEAN, st \in AuthStatuses : SummaryResp(live, st)
  \/ \E v \in AllViews : NavClick(v)
  \/ \E l \in crew, st \in AuthStatuses : CrewListResp(l, st)
  \/ \E l \in crew, st \in AuthStatuses : CrewSummaryResp(l, st)
  \/ Reload

FairAuthSpec ==
  /\ InitAuth /\ [][NextAuth]_vars
  /\ WF_vars(CheckAuth)
  /\ WF_vars(\E st \in AuthStatuses : GetMeResp(st))
  /\ WF_vars(Reload)

TypeOK ==
  /\ token \in Tokens \cup {None} /\ durable \in Tokens \cup {None}
  /\ user \in Users \cup {NoUser}
  /\ \A k \in ReqKinds : reqs[k] \in 0..MaxInflight

\* ======================= session store =======================

\* C1: after logout (of a session that login or register established) the
\* in-memory token, the user and the durable key 'astra_token' are absent and
\* the login view is rendered.
C1_LogoutClearsSession ==
  (variant = "auth" /\ lastOp = "logout")
    => /\ token = None
       /\ durable = None
       /\ user = NoUser
       /\ TopView = "login"

C1_Witness == lastOp = "logout" /\ sessionBy \in {"login", "register"}

\* C2 as stated: in every state the login view is rendered exactly when the
\* token is absent and the dashboard view exactly when it is present.
C2_ViewFollowsToken ==
  variant = "auth"
    => /\ (TopView = "login") <=> (token = None)
       /\ (TopView = "dashboard") <=> (token # None)

\* C2 amended: the same, in every state that is neither the startup loading
\* state nor waiting for the reload that a 401 asked for.
C2_ViewFollowsTokenOnceLoaded ==
  (variant = "auth" /\ ~loading /\ ~reloadPending)
    => /\ (TopView = "login") <=> (token = None)
       /\ (TopView = "dashboard") <=> (token # None)

C2_Witness ==
  /\ variant = "auth" /\ ~loading /\ ~reloadPending
  /\ TopView = "login" /\ token = None /\ lastOp = "logout" /\ sessionBy = "restore"

\* C3: after a failed login or register (network failure or any non-2xx status,
\* 401 included) the token, the durable key and the user are what they were at
\* the submit, and the login page shows the error message until the next submit.
C3_FailedLoginKeepsSessionShowsError ==
  (variant = "auth" /\ attempt = "failed" /\ TopView = "login")
    => /\ token = pre.token
       /\ durable = pre.durable
       /\ user = pre.user
       /\ loginError # ""

\* C4 (safety part): a failed current-user fetch at startup leaves no token, no
\* error message and the login view; without a durable token checkAuth makes no
\* request and ends the loading state at once.
C4_StartupSafety ==
  variant = "auth"
    => /\ (lastOp = "getMeResp" /\ lastStatus # "ok")
            => /\ token = None /\ durable = None
               /\ ~loading /\ TopView = "login" /\ loginError = ""
       /\ (lastOp = "checkAuth" /\ checkPc = "done")
            => ~loading /\ TopView = "login" /\ reqs = NoReqs

\* C4: at startup a failed current-user fetch (401, other non-2xx, network
\* error) clears the token silently and shows the login view, a missing durable
\* token costs no request, and the loading state always ends.
C4_StartupNeverBlocks ==
  /\ []C4_StartupSafety
  /\ (variant = "auth" /\ loading) ~> (~loading)

C4_Witness ==
  /\ lastOp = "getMeResp" /\ lastStatus = "err"
  /\ token = None /\ durable = None /\ TopView = "login"

\* C5: a 401 on any api call clears the token in memory and in durable storage
\* and has triggered the reload by the time the caller has the error; after the
\* reload there is no token and the login view is rendered.
C5_UnauthorizedResetsSession ==
  variant = "auth"
    => /\ lastStatus = "401" => (token = None /\ durable = None /\ reloadPending)
       /\ lastOp = "reload" => (token = None /\ durable = None /\ user = NoUser)
       /\ (after401 /\ ~loading) => (TopView = "login" /\ token = None)

C5_Witness == after401 /\ ~loading /\ TopView = "login" /\ lastOp = "checkAuth"

\* ======================= view router =======================

\* C6: whenever the content area is not in its loading state, exactly one of
\* the named views is rendered.
C6_ExactlyOneView ==
  (TopView = "dashboard" /\ ~ContentLoading) => Cardinality(RenderedViews) = 1

\* C7: the crew view is rendered, its per-crew fetches are issued and the
\* 'crew' navigation item is offered only while the role is supervisor.
C7_CrewOnlyForSupervisor ==
  /\ CrewShown => Role = "supervisor"
  /\ crewIssue => Role = "supervisor"
  /\ "crew" \in navItems => Role = "supervisor"

\* ======================= chat pipeline =======================
\* SupportChat (open, App.js:1163-1213) keeps the history in App.chatHistory and
\* its handler closes over that value; AstraSupport (auth, part_000:1141-1180)
\* keeps it in its own state and uses functional updates.

ChatShown == Rendered("chat")

Visible == IF variant = "open" THEN chatHistory ELSE messages

Stale(rs) == {[r EXCEPT !.live = FALSE] : r \in rs}

\* prev.map(m => m.assistant_response === null ? {...m, assistant_response} : m)
FillNull(h, resp) ==
  [i \in 1..Len(h) |-> IF h[i].assistant_response = None
                       THEN [h[i] EXCEPT !.assistant_response = resp] ELSE h[i]]

\* prev.slice(0, -1)
DropLast(h) == IF h = <<>> THEN h ELSE SubSeq(h, 1, Len(h) - 1)

\* mount and unmount of the chat component caused by the step
ChatEffect ==
  IF ~ChatShown /\ ChatShown'
  THEN /\ chatInput' = <<>> /\ sending' = FALSE /\ messages' = <<>>
       /\ histReqs' = IF variant = "auth" THEN histReqs \cup {[live |-> TRUE]} ELSE histReqs
       /\ chatDone' = NoSend
       /\ UNCHANGED <<chatHistory, sends, batches, sendSeq>>
  ELSE IF ChatShown /\ ~ChatShown'
  THEN /\ chatInput' = <<>> /\ sending' = FALSE /\ messages' = <<>>
       /\ sends' = Stale(sends)
       /\ histReqs' = Stale(histReqs)
       /\ chatDone' = NoSend
       /\ UNCHANGED <<chatHistory, batches, sendSeq>>
  ELSE /\ chatDone' = NoSend
       /\ UNCHANGED <<chatHistory, messages, chatInput, sending, sends, histReqs,
                      batches, sendSeq>>

\* the navigation click, with the chat component it mounts or unmounts
ChatNavClick(v) ==
  /\ Nav(v)
  /\ ChatEffect
  /\ UNCHANGED panelVars

sessFrame == <<variant, token, durable, user, loading, checkPc, isLogin, loginLoading,
               loginError, currentView, dashLoading, userRole, astronauts, reqs, crew,
               reloadPending, crewIssue, sessionBy, attempt, pre, after401>>

\* typing into the input (disabled while sending) or, in the open variant,
\* a quick prompt filling it
SetInput(t) ==
  /\ ChatShown /\ t \in Texts /\ t # chatInput
  /\ ~sending \/ (variant = "open" /\ t \in quickPrompts)
  /\ chatInput' = t
  /\ lastOp' = "setInput" /\ lastStatus' = "-"
  /\ UNCHANGED <<sessFrame, panelVars>>
  /\ chatDone' = NoSend
  /\ UNCHANGED <<chatHistory, messages, sending, sends, histReqs, batches, sendSeq>>

\* sendMessage up to its await (App.js:1176-1197, part_000:1163-1173)
SendMessage(text) ==
  /\ ChatShown
  /\ text \in (IF variant = "open" THEN {chatInput} ELSE {chatInput} \cup quickPrompts)
  /\ lastStatus' = "-"
  /\ UNCHANGED <<sessFrame, panelVars>>
  /\ IF trim(text) = <<>> \/ sending
     THEN /\ lastOp' = "sendIgnored"
          /\ chatDone' = NoSend
          /\ UNCHANGED <<chatHistory, messages, chatInput, sending, sends, histReqs,
                         batches, sendSeq>>
     ELSE /\ sendSeq < MaxSends
          /\ lastOp' = "send"
          /\ sendSeq' = sendSeq + 1
          /\ chatInput' = <<>>
          /\ sending' = TRUE
          /\ sends' = sends \cup {[seq |-> sendSeq + 1, msg |-> trim(text),
                                   base |-> chatHistory, pre |-> Visible, live |-> TRUE]}
          /\ IF variant = "open"
             THEN /\ chatHistory' = Append(chatHistory, Exchange(sendSeq + 1, trim(text), None))
                  /\ messages' = messages
             ELSE /\ messages' = Append(messages, Exchange(sendSeq + 1, trim(text), None))
                  /\ chatHistory' = chatHistory
          /\ chatDone' = NoSend
          /\ UNCHANGED <<histReqs, batches>>

\* the rest of sendMessage, when sendChat settles
SendResp(s, st) ==
  /\ s \in sends /\ st \in OpenStatuses
  /\ sends' = sends \ {s}
  /\ IF variant = "open"
     THEN /\ chatHistory' = IF st = "ok"
                            THEN Append(s.base, Exchange(100 + s.seq, s.msg, "reply"))
                            ELSE s.base
          /\ messages' = messages
     ELSE /\ messages' = IF ~s.live THEN messages
                         ELSE IF st = "ok" THEN FillNull(messages, "reply")
                         ELSE DropLast(messages)
          /\ chatHistory' = chatHistory
  /\ sending' = IF s.live THEN BusyAfter(st) ELSE sending
  /\ chatDone' = [status |-> st, seq |-> s.seq, live |-> s.live, pre |-> s.pre,
                  before |-> Visible]
  /\ lastOp' = "sendResp" /\ lastStatus' = st
  /\ UNCHANGED <<sessFrame, panelVars>>
  /\ UNCHANGED <<chatInput, histReqs, batches, sendSeq>>

\* auth: the rest of loadHistory (part_000:1148-1155)
HistResp(r, st) ==
  /\ variant = "auth" /\ r \in histReqs /\ st \in OpenStatuses
  /\ histReqs' = histReqs \ {r}
  /\ IF st = "ok" /\ r.live
     THEN \E h \in ServerHistories : messages' = h
     ELSE messages' = messages
  /\ lastOp' = "histResp" /\ lastStatus' = st
  /\ UNCHANGED <<sessFrame, panelVars>>
  /\ chatDone' = NoSend
  /\ UNCHANGED <<chatHistory, chatInput, sending, sends, batches, sendSeq>>

\* open: the 30-second timer starts a loadAstronautData batch (App.js:87-112)
PollIssue ==
  /\ variant = "open" /\ batches < MaxInflight
  /\ batches' = batches + 1
  /\ lastOp' = "pollIssue" /\ lastStatus' = "-"
  /\ UNCHANGED <<sessFrame, panelVars>>
  /\ chatDone' = NoSend
  /\ UNCHANGED <<chatHistory, messages, chatInput, sending, sends, histReqs, sendSeq>>

\* open: the batch settles; a failed chat fetch stands for an empty history
PollDone ==
  /\ variant = "open" /\ batches > 0
  /\ batches' = batches - 1
  /\ \E h \in ServerHistories : chatHistory' = h
  /\ lastOp' = "pollDone" /\ lastStatus' = "-"
  /\ UNCHANGED <<sessFrame, panelVars>>
  /\ chatDone' = NoSend
  /\ UNCHANGED <<messages, chatInput, sending, sends, histReqs, sendSeq>>

\* a loaded dashboard: the open variant after loadData, the auth variant after
\* login and the first dashboard summary
InitChat ==
  /\ variant \in {"open", "auth"}
  /\ durable = (IF variant = "auth" THEN "tokA" ELSE None)
  /\ token = durable
  /\ user = (IF variant = "auth" THEN [role |-> "astronaut"] ELSE NoUser)
  /\ loading = FALSE
  /\ checkPc = (IF variant = "auth" THEN "done" ELSE "start")
  /\ isLogin = TRUE /\ loginLoading = FALSE /\ loginError = ""
  /\ currentView = "dashboard"
  /\ dashLoading = (variant = "open")
  /\ userRole = "astronaut"
  /\ astronauts = (IF variant = "open" THEN DefaultAstronauts ELSE <<>>)
  /\ reqs = NoReqs
  /\ crew = {}
  /\ reloadPending = FALSE
  /\ lastOp = "init" /\ lastStatus = "-" /\ crewIssue = FALSE
  /\ sessionBy = (IF variant = "auth" THEN "login" ELSE "none")
  /\ attempt = (IF variant = "auth" THEN "ok" ELSE "none")
  /\ pre = [token |-> None, durable |-> None, user |-> NoUser]
  /\ after401 = FALSE
  /\ ChatFresh
  /\ PanelFresh

ChatNext ==
  \/ \E v \in ChatViews : ChatNavClick(v)
  \/ \E t \in Texts : SetInput(t)
  \/ \E text \in Texts : SendMessage(text)
  \/ \E s \in sends, st \in OpenStatuses : SendResp(s, st)
  \/ \E r \in histReqs, st \in OpenStatuses : HistResp(r, st)
  \/ PollIssue
  \/ PollDone

ChatSpec == InitChat /\ [][ChatNext]_vars

\* C8: after a successful send the visible history is exactly one exchange
\* longer than it was just before the send, and its last exchange has a response.
C8_SuccessAddsOneExchange ==
  (lastOp = "sendResp" /\ chatDone.status = "ok" /\ chatDone.live /\ ChatShown)
    => /\ Len(Visible) = Len(chatDone.pre) + 1
       /\ Visible[Len(Visible)].assistant_response # None

\* C9: after a failed send the handler has removed exactly the pending exchange
\* of that send, so the visible history is what it was before the send.
C9_FailureRestoresHistory ==
  (lastOp = "sendResp" /\ chatDone.status = "err" /\ chatDone.live /\ ChatShown)
    => /\ Visible = SelectSeq(chatDone.before, LAMBDA e : e.id # chatDone.seq)
       /\ Visible = chatDone.pre

\* C10: a send with blank text or while sending changes nothing and issues no
\* request, and at most one chat request is in flight.
C10_OneSendInFlight ==
  /\ [][lastOp' = "sendIgnored" =>
          UNCHANGED <<chatHistory, messages, chatInput, sending, sends, histReqs,
                      batches, sendSeq>>]_vars
  /\ [](Cardinality(sends) <= 1)

\* ======================= alerts =======================
\* AlertsPanel (open, App.js:1330-1342) maps over the alerts its handler closed
\* over and writes the result to App.alerts; AlertSystem (auth,
\* part_000:1276-1287) refetches the dashboard summary instead.  The fetch of
\* the alerts is the alerts slice of loadAstronautData (open) or the whole of
\* loadDashboardData (auth).

AlertsShown == Rendered("alerts")

\* the action buttons of an active alert's card
CardActions(a) ==
  IF variant = "open"
  THEN {"acknowledged", "dismissed"} \cup (IF a.level >= 2 THEN {"escalated"} ELSE {})
  ELSE {"acknowledged", "dismissed"}

\* alerts.map(a => a.id === alertId ? { ...a, status: action } : a)
MapStatus(l, alertId, action) ==
  [i \in 1..Len(l) |-> IF l[i].id = alertId THEN [l[i] EXCEPT !.status = action] ELSE l[i]]

\* what the response of fetch g writes over cur: no sequence guard
PollWritesMut(g, cur, new) == IF g < newest THEN cur ELSE new
PollWrites(g, cur, new) == new

alertFrame == <<sessFrame, chatVars, batchVars, scanVars, drawVars, restVars, formVars>>

\* handleAcknowledge up to its await
Acknowledge(i, action) ==
  /\ AlertsShown /\ ackSeq < MaxAcks
  /\ i \in 1..Len(alerts) /\ alerts[i].status = "active"
  /\ action \in CardActions(alerts[i])
  /\ ackSeq' = ackSeq + 1
  /\ acks' = acks \cup {[seq |-> ackSeq + 1, id |-> alerts[i].id, action |-> action,
                         base |-> IF variant = "open" THEN alerts ELSE <<>>]}
  /\ ackDone' = NoAck
  /\ lastOp' = "ack" /\ lastStatus' = "-"
  /\ UNCHANGED <<alerts, polls, pollSeq, applied, newest>>
  /\ UNCHANGED alertFrame

\* the rest of handleAcknowledge, when acknowledgeAlert settles
AckResp(a, st) ==
  /\ a \in acks /\ st \in OpenStatuses
  /\ (variant = "auth" /\ st = "ok") => pollSeq < MaxPolls
  /\ acks' = acks \ {a}
  /\ IF st = "ok" /\ variant = "open"
     THEN alerts' = MapStatus(a.base, a.id, a.action)
     ELSE alerts' = alerts
  /\ IF st = "ok" /\ variant = "auth"
     THEN /\ pollSeq' = pollSeq + 1
          /\ polls' = polls \cup {[gen |-> pollSeq + 1]}
     ELSE UNCHANGED <<polls, pollSeq>>
  /\ ackDone' = [status |-> st, id |-> a.id, action |-> a.action, before |-> alerts]
  /\ lastOp' = "ackResp" /\ lastStatus' = st
  /\ UNCHANGED <<ackSeq, applied, newest>>
  /\ UNCHANGED alertFrame

\* the 30-second timer (or, auth, the refresh button) starts a fetch
AlertsPoll ==
  /\ pollSeq < MaxPolls
  /\ pollSeq' = pollSeq + 1
  /\ polls' = polls \cup {[gen |-> pollSeq + 1]}
  /\ ackDone' = NoAck
  /\ lastOp' = "alertsPoll" /\ lastStatus' = "-"
  /\ UNCHANGED <<alerts, acks, ackSeq, applied, newest>>
  /\ UNCHANGED alertFrame

\* the fetch settles: setAlerts(alertsData.alerts || []) after the catch that
\* stands { alerts: [] } for a failure (open); setDashboardData(data), or the
\* catch that only logs (auth)
AlertsPollDone(p, st) ==
  /\ p \in polls /\ st \in OpenStatuses
  /\ polls' = polls \ {p}
  /\ \E l \in ServerAlerts :
       LET got == IF st = "ok" THEN l ELSE <<>> IN
       /\ st = "err" => l = <<>>
       /\ IF st = "ok" \/ variant = "open"
          THEN /\ alerts' = PollWrites(p.gen, alerts, got)
               /\ applied' = [gen |-> p.gen, data |-> got]
               /\ newest' = IF p.gen > newest THEN p.gen ELSE newest
          ELSE UNCHANGED <<alerts, applied, newest>>
  /\ ackDone' = NoAck
  /\ lastOp' = "alertsPollDone" /\ lastStatus' = st
  /\ UNCHANGED <<acks, ackSeq, pollSeq>>
  /\ UNCHANGED alertFrame

\* a loaded dashboard showing the alerts view, its first fetch in flight
InitAlerts ==
  /\ variant \in {"open", "auth"}
  /\ durable = (IF variant = "auth" THEN "tokA" ELSE None)
  /\ token = durable
  /\ user = (IF variant = "auth" THEN [role |-> "astronaut"] ELSE NoUser)
  /\ loading = FALSE
  /\ checkPc = (IF variant = "auth" THEN "done" ELSE "start")
  /\ isLogin = TRUE /\ loginLoading = FALSE /\ loginError = ""
  /\ currentView = "alerts"
  /\ dashLoading = FALSE
  /\ userRole = "astronaut"
  /\ astronauts = (IF variant = "open" THEN DefaultAstronauts ELSE <<>>)
  /\ reqs = NoReqs
  /\ crew = {}
  /\ reloadPending = FALSE
  /\ lastOp = "init" /\ lastStatus = "-" /\ crewIssue = FALSE
  /\ sessionBy = (IF variant = "auth" THEN "login" ELSE "none")
  /\ attempt = (IF variant = "auth" THEN "ok" ELSE "none")
  /\ pre = [token |-> None, durable |-> None, user |-> NoUser]
  /\ after401 = FALSE
  /\ ChatFresh
  /\ \E l \in ServerAlerts :
       /\ alerts = l
       /\ applied = [gen |-> 0, data |-> l] /\ newest = 0
  /\ acks = {} /\ ackSeq = 0 /\ polls = {} /\ pollSeq = 0 /\ ackDone = NoAck
  /\ BatchFresh /\ ScanFresh /\ DrawFresh /\ FormFresh /\ RestFresh

AlertsNext ==
  \/ \E i \in 1..MaxAlerts, action \in AlertActions : Acknowledge(i, action)
  \/ \E a \in acks, st \in OpenStatuses : AckResp(a, st)
  \/ AlertsPoll
  \/ \E p \in polls, st \in OpenStatuses : AlertsPollDone(p, st)

AlertSpec == InitAlerts /\ [][AlertsNext]_vars

\* the polling cycles alone, with nobody clicking
PollingNext ==
  \/ AlertsPoll
  \/ \E p \in polls, st \in OpenStatuses : AlertsPollDone(p, st)

PollingSpec == InitAlerts /\ [][PollingNext]_vars

\* C11: an acknowledge/dismiss/escalate click issues exactly one request and
\* changes no alert; when the request succeeds only the status of that alert may
\* have changed (to the action), every other alert and every other field is as
\* it was, and an id matching no alert changes nothing; when it fails no alert
\* changes.
C11_AckOnlyThatStatus ==
  /\ [][lastOp' = "ack" => /\ Cardinality(acks') = Cardinality(acks) + 1
                           /\ alerts' = alerts]_vars
  /\ [](lastOp = "ackResp" =>
          IF ackDone.status = "ok"
          THEN /\ Len(alerts) = Len(ackDone.before)
               /\ \A i \in 1..Len(alerts) :
                    IF ackDone.before[i].id = ackDone.id
                    THEN alerts[i] \in {ackDone.before[i],
                                        [ackDone.before[i] EXCEPT !.status = ackDone.action]}
                    ELSE alerts[i] = ackDone.before[i]
          ELSE alerts = ackDone.before)

\* C12: an alert whose status is no longer active is not set back to active by
\* any step other than the application of a fetch's response.
C12_StatusNotReverted ==
  [][lastOp' # "alertsPollDone" =>
       \A i \in 1..Len(alerts) : \A j \in 1..Len(alerts') :
          (alerts[i].status # "active" /\ alerts'[j].id = alerts[i].id)
             => alerts'[j].status # "active"]_vars

\* C19: a fetch's response is written whenever it arrives, also when the
\* response of a newer fetch has been applied before it: the alerts then hold
\* the older data.
C19_LateResponseOverwrites ==
  (lastOp = "alertsPollDone" /\ lastStatus = "ok") => alerts = applied.data

C19_Witness ==
  /\ lastOp = "alertsPollDone" /\ lastStatus = "ok"
  /\ applied.gen < newest
  /\ alerts = applied.data

\* ======================= the polling batch =======================
\* loadAstronautData (open, App.js:87-112): six fetches under Promise.all, each
\* with its own catch, then six setState calls in one continuation.  This part
\* follows one batch at a time, fetch by fetch; cycles that overlap are the
\* subject of AlertsPoll / AlertsPollDone above.

\* what the backend answers to the fetch of slice s in cycle g
Fetched(s, g) ==
  CASE s = "timeline" -> [records |-> <<>>, daily_averages |-> <<[gen |-> g]>>]
    [] s = "alerts" -> [alerts |-> <<Alert(g, "active")>>]
    [] s = "chat" -> [history |-> <<Exchange(0 - g, <<"a">>, "reply")>>]
    [] OTHER -> [gen |-> g]

\* the placeholder each fetch's catch returns (App.js:91-96)
FetchDefault(s) ==
  CASE s = "timeline" -> [records |-> <<>>, daily_averages |-> <<>>]
    [] s = "alerts" -> [alerts |-> <<>>]
    [] s = "chat" -> [history |-> <<>>]
    [] OTHER -> Null

\* api.getX(astronautId).catch(() => placeholder): never rejects
GuardedMut(s, st, g) ==
  IF st = "ok" THEN [rejected |-> FALSE, value |-> Fetched(s, g)]
  ELSE IF s = "health" THEN [rejected |-> TRUE, value |-> Null]
  ELSE [rejected |-> FALSE, value |-> FetchDefault(s)]
Guarded(s, st, g) ==
  IF st = "ok" THEN [rejected |-> FALSE, value |-> Fetched(s, g)]
  ELSE [rejected |-> FALSE, value |-> FetchDefault(s)]

\* what each setter is given (App.js:99-104)
Extract(s, r) ==
  CASE s = "timeline" -> r.daily_averages
    [] s = "alerts" -> r.alerts
    [] s = "chat" -> r.history
    [] OTHER -> r

\* what the settling of one fetch writes to its slice: nothing, the value
\* waits for Promise.all
SettleWritesMut(cur, new) == new
SettleWrites(cur, new) == cur

View == [s \in Slices |->
           CASE s = "health" -> healthData
             [] s = "timeline" -> timeline
             [] s = "baseline" -> baseline
             [] s = "alerts" -> alerts
             [] s = "context" -> context
             [] s = "chat" -> chatHistory]

WriteAll(v) ==
  /\ healthData' = v["health"] /\ timeline' = v["timeline"]
  /\ baseline' = v["baseline"] /\ alerts' = v["alerts"]
  /\ context' = v["context"] /\ chatHistory' = v["chat"]

batchFrame == <<sessFrame, messages, chatInput, sending, sends, histReqs, batches,
                sendSeq, chatDone, acks, ackSeq, polls, applied, newest, ackDone,
                scanVars, drawVars, restVars, formVars>>

\* the 30-second timer starts a batch: six fetches go out
BatchIssue ==
  /\ variant = "open" /\ batch = NoBatch /\ pollSeq < MaxPolls
  /\ pollSeq' = pollSeq + 1
  /\ batch' = [gen |-> pollSeq + 1, st |-> [s \in Slices |-> "pending"]]
  /\ lastFetch' = NoFetch /\ batchDone' = NoBatchDone
  /\ WriteAll(View)
  /\ lastOp' = "batchIssue" /\ lastStatus' = "-"
  /\ UNCHANGED batchFrame

\* one fetch of the batch settles
FetchSettle(s, st) ==
  /\ batch # NoBatch /\ s \in Slices /\ st \in OpenStatuses
  /\ batch.st[s] = "pending"
  /\ batch' = [batch EXCEPT !.st[s] = st]
  /\ lastFetch' = [slice |-> s, st |-> st, gen |-> batch.gen]
  /\ batchDone' = NoBatchDone
  /\ WriteAll([View EXCEPT ![s] =
                 SettleWrites(@, Extract(s, Guarded(s, st, batch.gen).value))])
  /\ lastOp' = "fetchSettle" /\ lastStatus' = st
  /\ UNCHANGED pollSeq
  /\ UNCHANGED batchFrame

\* Promise.all settles: the continuation sets the six slices, or the outer
\* catch logs when a fetch rejected
BatchApply ==
  /\ batch # NoBatch
  /\ \A s \in Slices : batch.st[s] # "pending"
  /\ LET got == [s \in Slices |-> Guarded(s, batch.st[s], batch.gen)] IN
       IF \E s \in Slices : got[s].rejected
       THEN WriteAll(View)
       ELSE WriteAll([s \in Slices |-> Extract(s, got[s].value)])
  /\ batchDone' = [gen |-> batch.gen, failed |-> {s \in Slices : batch.st[s] = "err"}]
  /\ batch' = NoBatch
  /\ lastFetch' = NoFetch
  /\ lastOp' = "batchApply" /\ lastStatus' = "-"
  /\ UNCHANGED pollSeq
  /\ UNCHANGED batchFrame

BatchNext ==
  \/ BatchIssue
  \/ \E s \in Slices, st \in OpenStatuses : FetchSettle(s, st)
  \/ BatchApply

InitBatch == InitChat /\ variant = "open"

BatchSpec == InitBatch /\ [][BatchNext]_vars

\* the slice holds what cycle g fetched for it
Holds(s, g) == View[s] = Extract(s, Fetched(s, g))

\* C13: whichever fetches of a batch fail, the batch completes and each slice
\* is set to what its fetch returned, or to its default when its fetch failed:
\* absent for latest vitals, baseline and mission context, empty for timeline,
\* alerts and chat history.
C13_BatchToleratesFailures ==
  lastOp = "batchApply" =>
    \A s \in Slices :
      IF s \in batchDone.failed
      THEN IF s \in {"health", "baseline", "context"} THEN View[s] = Null
           ELSE View[s] = <<>>
      ELSE Holds(s, batchDone.gen)

C13_Witness ==
  /\ lastOp = "batchApply"
  /\ batchDone.failed = {"health", "alerts"}
  /\ healthData = Null /\ alerts = <<>> /\ Holds("timeline", batchDone.gen)

\* C20 as claimed: a slice is written as soon as its own fetch resolves.
C20_SliceWrittenOnResolve ==
  (lastOp = "fetchSettle" /\ lastFetch.st = "ok") => Holds(lastFetch.slice, lastFetch.gen)

\* C20 as amended: while a batch is in flight no slice holds its data; the six
\* slices are written together once all six fetches have settled.
C20_SlicesWrittenTogether ==
  /\ batch # NoBatch => \A s \in Slices : ~Holds(s, batch.gen)
  /\ lastOp = "batchApply" =>
       \A s \in Slices : s \notin batchDone.failed => Holds(s, batchDone.gen)

C20_Witness ==
  /\ batch # NoBatch /\ batch.gen > 1
  /\ batch.st["health"] = "ok" /\ batch.st["alerts"] = "pending"
  /\ Holds("health", batch.gen - 1) /\ Holds("alerts", batch.gen - 1)

\* ==== the scan panel: FacialScan (open), BiometricScan (auth) ====

\* the scan panel is mounted (App.js:266-268, part_000:454-456)
ScanShown == Rendered("facial")

\* the <video> element is rendered, so videoRef.current is set
\* (App.js:884, 920-935; part_000:994-999)
VideoMounted == ScanShown /\ consent /\ ~cameraError

\* disabled={scanning || cameraError} on the scan button, which only the consented
\* panel renders
ScanEnabledMut == ScanShown /\ consent /\ ~scanning
ScanEnabled == ScanShown /\ consent /\ ~(scanning \/ cameraError)

\* a session with the dashboard loaded and the given view selected
Loaded(v) ==
  /\ variant \in {"open", "auth"}
  /\ durable = (IF variant = "auth" THEN "tokA" ELSE None)
  /\ token = durable
  /\ user = (IF variant = "auth" THEN [role |-> "astronaut"] ELSE NoUser)
  /\ loading = FALSE
  /\ checkPc = (IF variant = "auth" THEN "done" ELSE "start")
  /\ isLogin = TRUE /\ loginLoading = FALSE /\ loginError = ""
  /\ currentView = v
  /\ dashLoading = FALSE
  /\ userRole = "astronaut"
  /\ astronauts = (IF variant = "open" THEN DefaultAstronauts ELSE <<>>)
  /\ reqs = NoReqs
  /\ crew = {}
  /\ reloadPending = FALSE
  /\ lastOp = "init" /\ lastStatus = "-" /\ crewIssue = FALSE
  /\ sessionBy = (IF variant = "auth" THEN "login" ELSE "none")
  /\ attempt = (IF variant = "auth" THEN "ok" ELSE "none")
  /\ pre = [token |-> None, durable |-> None, user |-> NoUser]
  /\ after401 = FALSE

scanFrame == <<sessFrame, chatVars, batchVars, drawVars, restVars, formVars, alerts, acks, ackSeq,
               applied, newest, ackDone>>

\* the consent button: setConsent(true); the effect then calls startCamera, which
\* awaits getUserMedia (App.js:904-910, 809-814, 789-793)
Consent ==
  /\ ~reloadPending /\ ScanShown /\ ~consent
  /\ camSeq < MaxConsents
  /\ consent' = TRUE
  /\ camSeq' = camSeq + 1
  /\ camReqs' = camReqs \cup {[id |-> camSeq + 1, live |-> TRUE]}
  /\ stopped' = FALSE
  /\ lastOp' = "consent" /\ lastStatus' = "-"
  /\ UNCHANGED <<scanning, results, cameraError, srcObject, streams, scans, scanSeq,
                 facialData, polls, pollSeq, scanFrame>>

\* getUserMedia settles (App.js:794-800, part_000:911-913).  A granted stream has
\* running tracks from then on; it is attached only if the <video> element is
\* rendered at that moment.  The setters of an unmounted panel do nothing.
CamResp(r, granted) ==
  /\ ~reloadPending
  /\ r \in camReqs
  /\ camReqs' = camReqs \ {r}
  /\ IF granted
     THEN /\ streams' = streams \cup {r.id}
          /\ srcObject' = IF r.live /\ VideoMounted THEN r.id ELSE srcObject
          /\ cameraError' = IF r.live THEN FALSE ELSE cameraError
     ELSE /\ streams' = streams
          /\ cameraError' = IF r.live THEN TRUE ELSE cameraError
          \* the error placeholder replaces the <video> element
          /\ srcObject' = IF r.live THEN 0 ELSE srcObject
  /\ lastOp' = (IF r.live THEN "camResp" ELSE "camRespStale")
  /\ lastStatus' = (IF granted THEN "ok" ELSE "err")
  /\ UNCHANGED <<consent, scanning, results, scans, camSeq, scanSeq, facialData,
                 stopped, polls, pollSeq, scanFrame>>

\* the stop button: setConsent(false); stopCamera(); setResults(null)
\* (App.js:955-960, part_000:1019-1021); stopCamera stops the tracks of the stream
\* attached to the <video> element, if there is one (App.js:803-807)
Stop ==
  /\ ~reloadPending /\ ScanShown /\ consent
  /\ consent' = FALSE
  /\ streams' = IF srcObject # 0 THEN streams \ {srcObject} ELSE streams
  /\ srcObject' = 0
  /\ results' = 0
  /\ stopped' = TRUE
  /\ lastOp' = "stop" /\ lastStatus' = "-"
  /\ UNCHANGED <<scanning, cameraError, camReqs, scans, camSeq, scanSeq, facialData,
                 polls, pollSeq, scanFrame>>

\* the scan button: performScan up to its first await (App.js:816-820)
PerformScan ==
  /\ ~reloadPending /\ ScanEnabled
  /\ scanSeq < MaxScans
  /\ scanning' = TRUE
  /\ scanSeq' = scanSeq + 1
  /\ scans' = scans \cup {[seq |-> scanSeq + 1, pc |-> "delay", live |-> TRUE,
                             session |-> camSeq]}
  /\ lastOp' = "performScan" /\ lastStatus' = "-"
  /\ UNCHANGED <<consent, results, cameraError, srcObject, streams, camReqs, camSeq,
                 facialData, stopped, polls, pollSeq, scanFrame>>

\* the simulated delay is over: setResults(simulatedResults), then the
\* storeFacialAnalysis request is awaited (App.js:852-874, part_000:948-951)
ScanDelayDone(s) ==
  /\ ~reloadPending
  /\ s \in scans /\ s.pc = "delay"
  /\ results' = IF s.live THEN s.seq ELSE results
  /\ scans' = (scans \ {s}) \cup {[s EXCEPT !.pc = "store"]}
  /\ lastOp' = "scanDelayDone" /\ lastStatus' = "-"
  /\ UNCHANGED <<consent, scanning, cameraError, srcObject, streams, camReqs, camSeq,
                 scanSeq, facialData, stopped, polls, pollSeq, scanFrame>>

\* what a settled storeFacialAnalysis leaves of the displayed result: the catch
\* only logs (App.js:875-877, part_000:954-956)
AfterStoreMut(st, cur) == IF st = "ok" THEN cur ELSE 0
AfterStore(st, cur) == cur

\* the session state no request's answer touches
sessRest == <<variant, user, loading, checkPc, isLogin, loginLoading, loginError,
              currentView, dashLoading, userRole, astronauts, reqs, crew, crewIssue,
              sessionBy, attempt, pre, after401>>

\* storeFacialAnalysis settles: setScanning(false) either way; auth calls
\* onScanComplete on success, which is setFacialData and loadDashboardData
\* (App.js:875-879; part_000:951-957, 455).  In auth api.fetch clears the session
\* and reloads the page on a 401 before it throws.
ScanStoreResp(s, st) ==
  /\ ~reloadPending
  /\ s \in scans /\ s.pc = "store"
  /\ st \in (IF variant = "auth" THEN AuthStatuses ELSE OpenStatuses)
  /\ scans' = scans \ {s}
  /\ IF variant = "auth"
     THEN /\ token' = AfterFetch(st).token
          /\ durable' = AfterFetch(st).durable
          /\ reloadPending' = apiFetch(st).reload
     ELSE UNCHANGED <<token, durable, reloadPending>>
  /\ results' = IF s.live THEN AfterStore(st, results) ELSE results
  /\ scanning' = IF s.live THEN BusyAfter(st) ELSE scanning
  /\ IF variant = "auth" /\ st = "ok"
     THEN /\ facialData' = s.seq
          /\ pollSeq' = pollSeq + 1
          /\ polls' = polls \cup {[gen |-> pollSeq + 1]}
     ELSE UNCHANGED <<facialData, polls, pollSeq>>
  /\ lastOp' = "scanStoreResp" /\ lastStatus' = st
  /\ UNCHANGED <<consent, cameraError, srcObject, streams, camReqs, camSeq,
                 scanSeq, stopped, sessRest, chatVars, batchVars, drawVars, restVars,
                 formVars, alerts, acks, ackSeq, applied, newest, ackDone>>

\* window.location.reload(): the page starts again; the panel, its pending
\* continuations and the camera streams of the page are gone
ScanReload ==
  /\ PageLoad
  /\ consent' = FALSE /\ scanning' = FALSE /\ results' = 0 /\ cameraError' = FALSE
  /\ srcObject' = 0 /\ streams' = {} /\ camReqs' = {} /\ scans' = {}
  /\ facialData' = 0 /\ stopped' = FALSE /\ polls' = {}
  /\ UNCHANGED <<camSeq, scanSeq, pollSeq, chatVars, batchVars, drawVars, restVars,
                 formVars, alerts, acks, ackSeq, applied, newest, ackDone>>

\* the views the scan runs move between
ScanViews == {"dashboard", "facial"}

\* a navigation click while the scan panel runs.  Leaving the view unmounts the
\* panel: its state is gone, what its pending continuations set is lost, and the
\* effect's cleanup calls stopCamera, which finds the stream only if
\* videoRef.current still points at the <video> element when the cleanup runs
\* (detached = FALSE); React clears the ref in the same commit.
ScanNavClick(v, detached) ==
  /\ v \in ScanViews
  /\ Nav(v)
  /\ IF ScanShown /\ ~ScanShown'
     THEN /\ consent' = FALSE /\ scanning' = FALSE /\ results' = 0
          /\ cameraError' = FALSE /\ srcObject' = 0
          /\ streams' = IF srcObject # 0 /\ ~detached THEN streams \ {srcObject}
                        ELSE streams
          /\ camReqs' = Stale(camReqs)
          /\ scans' = Stale(scans)
          /\ stopped' = FALSE
     ELSE /\ detached = FALSE
          /\ UNCHANGED <<consent, scanning, results, cameraError, srcObject, streams,
                         camReqs, scans, stopped>>
  /\ UNCHANGED <<camSeq, scanSeq, facialData, chatVars, alertVars, batchVars, drawVars, restVars,
                 formVars>>

ScanNext ==
  \/ Consent
  \/ \E r \in camReqs, granted \in BOOLEAN : CamResp(r, granted)
  \/ Stop
  \/ PerformScan
  \/ \E s \in scans : ScanDelayDone(s)
  \/ \E s \in scans, st \in AuthStatuses : ScanStoreResp(s, st)
  \/ \E v \in ScanViews, detached \in BOOLEAN : ScanNavClick(v, detached)
  \/ ScanReload

InitScan == Loaded("dashboard") /\ ChatFresh /\ PanelFresh

ScanSpec == InitScan /\ [][ScanNext]_vars

\* C14: after the stop action the panel is in awaitingConsent with no results and no
\* open camera stream, and stays so until consent is given again, also when stop was
\* pressed while a scan's delay or its persistence request was pending
C14_StoppedIsClean == stopped => (~consent /\ results = 0 /\ streams = {})

\* C15: at most one camera stream is acquired per consent session, and whenever
\* consent is revoked or the panel is unmounted no stream acquired by the panel
\* still has running tracks
C15_NoStreamWithoutConsent ==
  /\ \A r1, r2 \in camReqs : r1.id = r2.id => r1 = r2
  /\ Cardinality(streams) <= camSeq
  /\ (~consent \/ ~ScanShown) => streams = {}

\* C16: as long as the panel stays mounted, once camera access has been denied the
\* panel stays in cameraError until a camera request succeeds: only a granted
\* request clears the error, and while it is set the error message stands in place
\* of the live feed and no scan is started
C16_DeniedStaysError ==
  /\ [][(cameraError /\ ScanShown') => (cameraError' \/ (lastOp' = "camResp" /\ lastStatus' = "ok"))]_vars
  /\ [][(lastOp' = "camResp" /\ lastStatus' = "err") => cameraError']_vars
  /\ [][cameraError => lastOp' # "performScan"]_vars
  /\ [](cameraError => (~VideoMounted /\ srcObject = 0 /\ ~ScanEnabled))

C16_Witness ==
  /\ lastOp = "consent" /\ consent /\ cameraError /\ camSeq = 2 /\ camReqs # {}
  /\ ~ScanEnabled

\* ==== the synthesized scan result (simulatedResults of performScan) ====

\* Math.random() is k / RandSteps; a number x is held as the integer x * Unit
Unit == 100 * RandSteps

\* base + Math.random() * span, base and span given in hundredths
Affine(base, span, k) == base * RandSteps + span * k

\* Math.floor of num / den, num >= 0
Floor(num, den) == num \div den

\* the mood lists (App.js:833, part_000:935)
moods(v) == IF v = "open" THEN <<"calm", "neutral", "focused", "slightly_stressed">>
            ELSE <<"calm", "neutral", "focused", "alert">>

\* Math.floor(Math.random() * 4), a 0-based index
moodIndexMut(k) == (2 * 4 * k + RandSteps) \div (2 * RandSteps)
moodIndex(k) == Floor(4 * k, RandSteps)

\* array[i] of JavaScript: undefined outside the array
At(l, i) == IF i + 1 \in DOMAIN l THEN l[i + 1] ELSE "undefined"

\* the fields of simulatedResults that have a documented range
\* (App.js:823-850, part_000:929-946); d holds one draw per field
simulatedResults(v, d) ==
  [made |-> TRUE,
   heart_rate |-> IF v = "open" THEN Affine(65 * 100, 20 * 100, d["hr"])
                  ELSE Affine(65 * 100, 25 * 100, d["hr"]),
   mental_stress_index |-> IF v = "open" THEN Affine(20 * 100, 40 * 100, d["stress"])
                           ELSE Affine(15 * 100, 45 * 100, d["stress"]),
   alertness_level |-> IF v = "open" THEN Affine(60 * 100, 30 * 100, d["alertness"])
                       ELSE Affine(55 * 100, 35 * 100, d["alertness"]),
   confidence |-> Affine(75, 20, d["confidence"]),
   mood_state |-> At(moods(v), moodIndex(d["mood"]))]

\* performScan builds simulatedResults from its draws
Synthesize ==
  /\ ~simulated.made
  /\ simulated' = simulatedResults(variant, rand)
  /\ lastOp' = "synthesize" /\ lastStatus' = "-"
  /\ UNCHANGED <<sessFrame, chatVars, alertVars, batchVars, scanVars, formVars, restVars,
                 rand>>

InitDraw ==
  /\ Loaded("facial") /\ ChatFresh
  /\ AlertFresh /\ BatchFresh /\ ScanFresh /\ FormFresh /\ RestFresh
  /\ rand \in [DrawFields -> 0 .. RandSteps - 1]
  /\ simulated = NoResult

DrawNext == Synthesize

DrawSpec == InitDraw /\ [][DrawNext]_vars

\* x * Unit lies in [lo, hi], lo and hi given in hundredths
Within(x, lo, hi) == lo * RandSteps <= x /\ x <= hi * RandSteps

\* C17: for every outcome of the draws the synthesized result has its heart-rate
\* estimate in [65,90], its stress index in [15,60], its alertness in [55,90], its
\* overall confidence in [0.75,0.95], and its mood is one of the four listed moods
C17_ResultInRange ==
  simulated.made =>
    /\ Within(simulated.heart_rate, 65 * 100, 90 * 100)
    /\ Within(simulated.mental_stress_index, 15 * 100, 60 * 100)
    /\ Within(simulated.alertness_level, 55 * 100, 90 * 100)
    /\ Within(simulated.confidence, 75, 95)
    /\ \E i \in 1 .. 4 : simulated.mood_state = moods(variant)[i]

C17_Witness ==
  /\ simulated.made
  /\ \A f \in DrawFields : rand[f] = RandSteps - 1
  /\ simulated.mood_state = moods(variant)[4]

\* ==== the forms: manual vitals entry and mission context ====

\* HealthMonitor / VitalsMonitor and MissionContext / MissionStatus are mounted
\* (App.js:258-265, 286-292; part_000:451-453, 466-468)
HealthShown == Rendered("health")
ContextShown == Rendered("context")

\* what the user types into a vitals field
EntryInputs == {"", "72"}
\* what the user selects in the context form
FieldInputs == {<<"mission_phase", "transit">>, <<"mission_phase", "orbit">>,
                <<"days_since_launch", 2>>}

\* the statuses api.fetch can see in the variant
FormStatuses == IF variant = "auth" THEN AuthStatuses ELSE OpenStatuses

\* useState of formData when the context form mounts: context?.field || default
\* (App.js:1497-1503, part_000:1355-1361); auth reads data?.context
FormInit(ctx) == IF ctx = Null THEN DefaultForm ELSE ctx

\* what the submit handler leaves in the vitals form (App.js:566-569,
\* part_000:802-805): cleared in the try block, after the awaited request
AfterSubmitMut(st, entry) == EmptyEntry
AfterSubmit(st, entry) == IF st = "ok" THEN EmptyEntry ELSE entry

\* the state a failed submission must leave alone
Drafts == [entry |-> manualEntry, form |-> formData, editing |-> editing,
           health |-> healthData, context |-> context]

\* the requests of one form lose their component
StaleKind(rs, k) == {IF r.kind = k THEN [r EXCEPT !.live = FALSE] ELSE r : r \in rs}

formFrame == <<variant, user, loading, checkPc, isLogin, loginLoading, loginError,
               currentView, dashLoading, userRole, astronauts, reqs, crew, crewIssue,
               sessionBy, attempt, pre, after401, chatVars, scanVars, drawVars, restVars,
               alerts, acks, ackSeq, applied, newest, ackDone,
               timeline, baseline, batch, lastFetch, batchDone>>

\* onChange of a vitals input (App.js:643-686, part_000:838-853); the inputs are
\* not disabled while a submit is pending
SetEntry(f, x) ==
  /\ ~reloadPending /\ HealthShown
  /\ f \in VitalFields /\ x \in EntryInputs /\ manualEntry[f] # x
  /\ manualEntry' = [manualEntry EXCEPT ![f] = x]
  /\ formDone' = NoSubmit
  /\ lastOp' = "setEntry" /\ lastStatus' = "-"
  /\ UNCHANGED <<submitting, formData, editing, submits, formSeq, healthData, context,
                 polls, pollSeq, token, durable, reloadPending, formFrame>>

\* the vitals form is submitted: every field is required and the button is
\* disabled while submitting (App.js:553-563, 649-696; part_000:790-800, 857)
SubmitVitals ==
  /\ ~reloadPending /\ HealthShown
  /\ ~submitting /\ \A f \in VitalFields : manualEntry[f] # ""
  /\ formSeq < MaxSubmits
  /\ submitting' = TRUE
  /\ formSeq' = formSeq + 1
  /\ submits' = submits \cup {[seq |-> formSeq + 1, kind |-> "vitals",
                               payload |-> manualEntry, live |-> TRUE]}
  /\ formDone' = NoSubmit
  /\ lastOp' = "submitVitals" /\ lastStatus' = "-"
  /\ UNCHANGED <<manualEntry, formData, editing, healthData, context, polls, pollSeq,
                 token, durable, reloadPending, formFrame>>

\* the Edit Context / Cancel button: setEditing(!editing) (App.js:1526-1531,
\* part_000:1382-1384)
ToggleEditing ==
  /\ ~reloadPending /\ ContextShown
  /\ editing' = ~editing
  /\ formDone' = NoSubmit
  /\ lastOp' = "toggleEditing" /\ lastStatus' = "-"
  /\ UNCHANGED <<manualEntry, submitting, formData, submits, formSeq, healthData,
                 context, polls, pollSeq, token, durable, reloadPending, formFrame>>

\* onChange of a context field, rendered as an input only while editing
\* (App.js:1538-1631, part_000:1396-1417)
SetField(f, x) ==
  /\ ~reloadPending /\ ContextShown /\ editing
  /\ <<f, x>> \in FieldInputs /\ formData[f] # x
  /\ formData' = [formData EXCEPT ![f] = x]
  /\ formDone' = NoSubmit
  /\ lastOp' = "setField" /\ lastStatus' = "-"
  /\ UNCHANGED <<manualEntry, submitting, editing, submits, formSeq, healthData,
                 context, polls, pollSeq, token, durable, reloadPending, formFrame>>

\* the Save button, rendered while editing and never disabled: handleSave up to
\* its await (App.js:1505-1510, 1652-1656; part_000:1363-1365)
SaveContext ==
  /\ ~reloadPending /\ ContextShown /\ editing
  /\ formSeq < MaxSubmits
  /\ formSeq' = formSeq + 1
  /\ submits' = submits \cup {[seq |-> formSeq + 1, kind |-> "context",
                               payload |-> formData, live |-> TRUE]}
  /\ formDone' = NoSubmit
  /\ lastOp' = "saveContext" /\ lastStatus' = "-"
  /\ UNCHANGED <<manualEntry, submitting, formData, editing, healthData, context,
                 polls, pollSeq, token, durable, reloadPending, formFrame>>

\* ingestHealth or updateContext settles (App.js:564-570, 1511-1515;
\* part_000:801-807, 1366-1369).  Open applies the result to the App's state;
\* auth calls onRefresh, which is loadDashboardData.  In auth api.fetch clears the
\* session and reloads the page on a 401 before it throws.
SubmitResp(s, st) ==
  /\ ~reloadPending
  /\ s \in submits /\ st \in FormStatuses
  /\ submits' = submits \ {s}
  /\ IF variant = "auth"
     THEN /\ token' = AfterFetch(st).token
          /\ durable' = AfterFetch(st).durable
          /\ reloadPending' = apiFetch(st).reload
     ELSE UNCHANGED <<token, durable, reloadPending>>
  /\ manualEntry' = IF s.kind = "vitals" /\ s.live THEN AfterSubmit(st, manualEntry)
                    ELSE manualEntry
  /\ submitting' = IF s.kind = "vitals" /\ s.live THEN BusyAfter(st) ELSE submitting
  /\ editing' = IF s.kind = "context" /\ s.live /\ st = "ok" THEN FALSE ELSE editing
  /\ healthData' = IF variant = "open" /\ s.kind = "vitals" /\ st = "ok"
                   THEN [gen |-> s.seq] ELSE healthData
  /\ context' = IF variant = "open" /\ s.kind = "context" /\ st = "ok"
                THEN s.payload ELSE context
  /\ IF variant = "auth" /\ st = "ok"
     THEN /\ pollSeq' = pollSeq + 1
          /\ polls' = polls \cup {[gen |-> pollSeq + 1]}
     ELSE UNCHANGED <<polls, pollSeq>>
  /\ formDone' = [status |-> st, kind |-> s.kind, live |-> s.live, seq |-> s.seq,
                  before |-> Drafts]
  /\ lastOp' = "submitResp" /\ lastStatus' = st
  /\ UNCHANGED <<formData, formSeq, formFrame>>

\* the views the forms' runs move between
FormViews == {"dashboard", "health", "context"}

\* a navigation click: the form that is left loses its state, the context form
\* that is entered takes its fields from the context on display
FormNavClick(v) ==
  /\ v \in FormViews
  /\ Nav(v)
  /\ IF HealthShown /\ ~HealthShown'
     THEN manualEntry' = EmptyEntry /\ submitting' = FALSE
     ELSE UNCHANGED <<manualEntry, submitting>>
  /\ IF ContextShown /\ ~ContextShown'
     THEN formData' = DefaultForm /\ editing' = FALSE
     ELSE IF ~ContextShown /\ ContextShown'
     THEN formData' = FormInit(context) /\ editing' = FALSE
     ELSE UNCHANGED <<formData, editing>>
  /\ submits' = IF HealthShown /\ ~HealthShown' THEN StaleKind(submits, "vitals")
                ELSE IF ContextShown /\ ~ContextShown' THEN StaleKind(submits, "context")
                ELSE submits
  /\ formDone' = NoSubmit
  /\ UNCHANGED <<formSeq, chatVars, alertVars, batchVars, scanVars, drawVars, restVars>>

\* window.location.reload(): the page starts again, every component state and
\* every pending continuation is gone
FormReload ==
  /\ PageLoad
  /\ manualEntry' = EmptyEntry /\ submitting' = FALSE
  /\ formData' = DefaultForm /\ editing' = FALSE
  /\ submits' = {}
  /\ healthData' = Null /\ context' = Null
  /\ polls' = {}
  /\ UNCHANGED <<formSeq, formDone, pollSeq, chatVars, scanVars, drawVars, restVars,
                 alerts, acks, ackSeq, applied, newest, ackDone,
                 timeline, baseline, batch, lastFetch, batchDone>>

FormNext ==
  \/ \E f \in VitalFields, x \in EntryInputs : SetEntry(f, x)
  \/ SubmitVitals
  \/ ToggleEditing
  \/ \E i \in FieldInputs : SetField(i[1], i[2])
  \/ SaveContext
  \/ \E s \in submits, st \in AuthStatuses \cup OpenStatuses : SubmitResp(s, st)
  \/ \E v \in FormViews : FormNavClick(v)
  \/ FormReload

InitForm == Loaded("dashboard") /\ ChatFresh /\ PanelFresh

FormSpec == InitForm /\ [][FormNext]_vars

\* the state a settled submission has left: drafts, edit mode and displayed values
\* are those from before, and the vitals form's submitting flag is false again
LeftAlone ==
  /\ Drafts = formDone.before
  /\ (formDone.kind = "vitals" /\ formDone.live) => ~submitting

\* C18 as stated: when a vitals submit or a context save fails, the drafted field
\* values are kept for retry, the context form stays in edit mode, no displayed
\* vitals or context value changes and the submitting flag is false again; the
\* vitals form is cleared only after a successful submit
C18_FailureKeepsDrafts ==
  /\ [](formDone.status \notin {"-", "ok"} => LeftAlone)
  /\ [][(manualEntry # EmptyEntry /\ manualEntry' = EmptyEntry)
          => \/ lastOp' = "submitResp" /\ lastStatus' = "ok"
             \/ lastOp' = "setEntry"
             \/ HealthShown /\ ~HealthShown']_vars

\* C18 amended: the same for every failure that is not a 401 of the token variant;
\* after a 401 there the page reloads and starts again without the drafts
C18_FailureKeepsDraftsUnless401 ==
  /\ [](formDone.status = "err" => LeftAlone)
  /\ [](formDone.status = "401" => (variant = "auth" /\ (reloadPending \/ lastOp = "reload")))
  /\ [][(manualEntry # EmptyEntry /\ manualEntry' = EmptyEntry)
          => \/ lastOp' = "submitResp" /\ lastStatus' = "ok"
             \/ lastOp' = "setEntry"
             \/ HealthShown /\ ~HealthShown'
             \/ lastOp' = "reload" /\ formDone.status = "401"]_vars

C18_Witness ==
  /\ formDone.status = "err" /\ formDone.live /\ formDone.kind = "vitals"
  /\ manualEntry # EmptyEntry /\ ~submitting /\ HealthShown

\* ==== the dashboard wellness score (CommandCenter, auth) ====

\* the vitals samples: ScoreSteps + 1 evenly spread values of each manual-entry
\* range (part_000:838-854: heart rate 40..200, stress and fatigue 0..100)
Spread(lo, hi) == {lo + (k * (hi - lo)) \div ScoreSteps : k \in 0 .. ScoreSteps}
Samples == [heart_rate : Spread(40, 200), stress_level : Spread(0, 100),
            fatigue_level : Spread(0, 100)]

\* Math.abs
Abs(x) == IF x < 0 THEN 0 - x ELSE x

\* Math.round(num / 10): the nearest integer, halves upwards
Round10(num) == (num + 5) \div 10

\* wellnessScore (part_000:501), computed in tenths
wellnessScore(health) ==
  IF health = Null THEN 85
  ELSE Round10(100 * 10 - (health.stress_level * 4 + health.fatigue_level * 3
                           + Abs(health.heart_rate - 70) * 3))

\* loadDashboardData applies a summary whose health is h (part_000:319-323)
SummaryHealth(h) ==
  /\ h \in Samples \cup {Null} /\ h # healthData
  /\ healthData' = h
  /\ lastOp' = "summaryHealth" /\ lastStatus' = "ok"
  /\ UNCHANGED <<sessFrame, chatVars, alertVars, scanVars, drawVars, formVars, restVars,
                 timeline, baseline, context, batch, lastFetch, batchDone>>

InitScore ==
  /\ Loaded("dashboard") /\ variant = "auth" /\ ChatFresh
  /\ AlertFresh /\ ScanFresh /\ DrawFresh /\ FormFresh /\ RestFresh
  /\ healthData \in Samples \cup {Null}
  /\ timeline = <<>> /\ baseline = Null /\ context = Null
  /\ batch = NoBatch /\ lastFetch = NoFetch /\ batchDone = NoBatchDone

ScoreNext == \E h \in Samples \cup {Null} : SummaryHealth(h)

ScoreSpec == InitScore /\ [][ScoreNext]_vars

\* C29: the wellness score lies in 0..100 for every vitals sample within the
\* manual-entry ranges, and is 85 when there are no vitals
C29_ScoreInGauge ==
  /\ wellnessScore(healthData) \in 0 .. 100
  /\ healthData = Null => wellnessScore(healthData) = 85

\* C22: selecting a navigation item changes only the current-view selector: it
\* issues no HTTP request and changes no data slice, also when the newly shown view
\* is the timeline, chat or crew-overview view
C22_NavIsLocal ==
  [][currentView' # currentView =>
       /\ reqs' = reqs /\ crew' = crew /\ sends' = sends /\ tlReqs' = tlReqs
       /\ histReqs' \subseteq (histReqs \cup Stale(histReqs))
       /\ View' = View]_vars

\* C26: when a chat request succeeds its reply is attached to the exchange whose
\* user message originated the request, and the assistant response of every other
\* exchange in the visible history, also of one loaded from the server without a
\* response, is left unchanged
C26_ReplyOnlyOnItsExchange ==
  (lastOp = "sendResp" /\ chatDone.status = "ok" /\ chatDone.live /\ ChatShown)
    => /\ \E i \in 1..Len(Visible) :
            /\ Visible[i].id \in {chatDone.seq, 100 + chatDone.seq}
            /\ Visible[i].assistant_response # None
       /\ \A i \in 1..Len(chatDone.before) :
            chatDone.before[i].id # chatDone.seq
              => /\ i <= Len(Visible)
                 /\ Visible[i].id = chatDone.before[i].id
                 /\ Visible[i].assistant_response = chatDone.before[i].assistant_response

\* C23: the scan panel follows awaitingConsent -> cameraRequested ->
\* {cameraError | liveFeed} -> scanning -> resultsReady: a scan starts only after
\* the camera stream has been acquired, not while the permission request is
\* pending, and results become present only as the outcome of a scan started in
\* the current consent session
C23_ScanAfterStream ==
  /\ [][lastOp' = "performScan" =>
          (srcObject # 0 /\ \A r \in camReqs : ~r.live)]_vars
  /\ [][(results' # results /\ results' # 0) =>
          \E s \in scans : s.seq = results' /\ consent /\ s.session = camSeq]_vars

\* C24: at most one scan started by this client is in progress in any reachable
\* state, also after stop and re-consent and after leaving the scan view and
\* coming back during a scan
C24_OneScanInProgress == Cardinality(scans) <= 1

\* (a navigation click is the step with lastOp' = "other"; the result of a later
\* scan takes the place of the displayed one in the step "scanDelayDone")
\* C25 as stated: when the delay elapses the result is displayed and the
\* persistence request is issued after it; the result stays displayed whether the
\* request succeeds or fails; the scanning flag is false again in both cases; auth
\* updates the dashboard's facial data only when persistence succeeded
C25_ResultSurvivesStore ==
  /\ [][lastOp' = "scanDelayDone" =>
          \E s \in scans : /\ s.pc = "delay" /\ [s EXCEPT !.pc = "store"] \in scans'
                            /\ s.live => results' = s.seq]_vars
  /\ [][lastOp' = "scanStoreResp" =>
          /\ results' = results
          /\ \A s \in scans \ scans' : s.live => ~scanning'
          /\ facialData' # facialData => (variant = "auth" /\ lastStatus' = "ok")]_vars
  /\ [][(lastOp = "scanStoreResp" /\ results # 0) =>
          (results' = results \/ lastOp' \in {"stop", "other", "scanDelayDone"})]_vars

\* C25 amended: the same, except that a persistence request answered with 401 in
\* the token variant is followed by the reload of the page, which starts the panel
\* again without the result
C25_ResultSurvivesStoreUnless401 ==
  /\ [][lastOp' = "scanDelayDone" =>
          \E s \in scans : /\ s.pc = "delay" /\ [s EXCEPT !.pc = "store"] \in scans'
                            /\ s.live => results' = s.seq]_vars
  /\ [][lastOp' = "scanStoreResp" =>
          /\ results' = results
          /\ \A s \in scans \ scans' : s.live => ~scanning'
          /\ facialData' # facialData => (variant = "auth" /\ lastStatus' = "ok")]_vars
  /\ [][(lastOp = "scanStoreResp" /\ results # 0) =>
          \/ results' = results \/ lastOp' \in {"stop", "other", "scanDelayDone"}
          \/ (variant = "auth" /\ lastStatus = "401" /\ lastOp' = "reload")]_vars
  /\ []((lastOp = "scanStoreResp" /\ lastStatus = "401") => reloadPending)

C25_Witness ==
  /\ lastOp = "scanStoreResp" /\ lastStatus = "err"
  /\ results # 0 /\ ~scanning /\ consent /\ scans = {}

\* C27: a facial-analysis persistence request is issued only while consent is
\* given: a scan in its delay when the user presses stop or leaves the scan view
\* does not afterwards send its result
C27_StoreOnlyWithConsent ==
  [][\A s \in scans' : (s.pc = "store" /\ s \notin scans) => (consent /\ s.live)]_vars

\* ==== the subject selector (open) and the timeline view ====

\* HealthTimeline is mounted (App.js:269-271, part_000:457-459)
TimelineShown == Rendered("timeline")

\* the lookback windows of the timeline view's buttons (App.js:1069-1072)
Windows == {7, 14, 30}

\* getTimeline(astronautId, days) is sent by the component's effect
TlIssue(rs, d, a) == rs \cup {[days |-> d, subj |-> a, live |-> TRUE, st |-> "pending"]}

\* the subject the interval's loadAstronautData fetches: the effect is re-created
\* for every astronautId, so its closure holds the selected one (App.js:87-112)
TickSubjectMut == CHOOSE a \in 1..Len(astronauts) : \A b \in 1..Len(astronauts) : a <= b
TickSubject == astronautId

restFrame == <<sessFrame, messages, chatInput, sending, sends, histReqs, batches,
               sendSeq, chatDone, scanVars, drawVars, formVars, acks, ackSeq, polls,
               pollSeq, applied, newest, ackDone, batch, lastFetch, batchDone>>

sliceFrame == <<healthData, timeline, baseline, alerts, context, chatHistory>>

\* the astronaut selector: setAstronautId; the effect of loadAstronautData runs
\* again and calls it at once, and a mounted HealthTimeline fetches again
\* (App.js:198-207, 87-112, 1048-1058)
SelectAstronaut(a) ==
  /\ ~reloadPending /\ variant = "open"
  /\ a \in 1..Len(astronauts) /\ a # astronautId
  /\ astronautId' = a
  /\ subjBatches' = subjBatches \cup {a}
  /\ tlReqs' = IF TimelineShown
               THEN IF Cardinality(tlReqs) < MaxTimeline THEN TlIssue(tlReqs, days, a)
                    ELSE tlReqs
               ELSE tlReqs
  /\ (TimelineShown => Cardinality(tlReqs) < MaxTimeline)
  /\ lastOp' = "selectAstronaut" /\ lastStatus' = "-"
  /\ UNCHANGED <<days, data, sliceFrame, restFrame>>

\* the 30 s interval fires: loadAstronautData for the subject of its closure
Tick ==
  /\ ~reloadPending /\ variant = "open"
  /\ TickSubject \notin subjBatches
  /\ subjBatches' = subjBatches \cup {TickSubject}
  /\ lastOp' = "tick" /\ lastStatus' = "-"
  /\ UNCHANGED <<astronautId, days, tlReqs, data, sliceFrame, restFrame>>

\* a batch fetched for subject a has settled, the fetches in failed having been
\* rejected: the six setters run with what each guarded fetch gave (App.js:90-104)
SubjDone(a, failed) ==
  /\ ~reloadPending /\ variant = "open"
  /\ a \in subjBatches /\ failed \in SUBSET Slices
  /\ subjBatches' = subjBatches \ {a}
  /\ WriteAll([s \in Slices |->
                 Extract(s, Guarded(s, IF s \in failed THEN "err" ELSE "ok", a).value)])
  /\ lastOp' = "subjDone" /\ lastStatus' = (IF failed = {} THEN "ok" ELSE "err")
  /\ UNCHANGED <<astronautId, days, tlReqs, data, restFrame>>

\* the sets of fetches of one batch that fail: none, one of them, or all
FailSets == {{}, Slices} \cup {{s} : s \in Slices}

SubjNext ==
  \/ \E a \in 1..Len(DefaultAstronauts) : SelectAstronaut(a)
  \/ Tick
  \/ \E a \in 1..Len(DefaultAstronauts), failed \in FailSets : SubjDone(a, failed)

\* the dashboard is loaded and the effect has sent the first batch
InitSubject ==
  /\ Loaded("dashboard") /\ variant = "open" /\ ChatFresh
  /\ AlertFresh /\ BatchFresh /\ ScanFresh /\ DrawFresh /\ FormFresh
  /\ astronautId = 1 /\ subjBatches = {1}
  /\ days = 7 /\ tlReqs = {} /\ data = NoTimeline

\* the timer keeps firing and every batch is answered
SubjectSpec ==
  /\ InitSubject /\ [][SubjNext]_vars
  /\ WF_vars(Tick)
  /\ \A a \in 1..Len(DefaultAstronauts) :
       WF_vars(\E failed \in FailSets : SubjDone(a, failed))

\* every slice holds what was fetched for subject a, or its fetch's placeholder
HoldsOnly(a) ==
  \A s \in Slices : View[s] \in {Extract(s, Fetched(s, a)), Extract(s, FetchDefault(s))}

\* C21: a response of a batch issued for the previous subject may still be
\* applied, and what it writes is replaced when the selected subject's next batch
\* completes: once the selection stops changing, the view state eventually holds
\* only data fetched for the selected subject
C21_StaleSubjectOverwritten ==
  \A b \in 1..Len(DefaultAstronauts) :
    <>[](astronautId = b) => <>[](HoldsOnly(b))

C21_Witness ==
  /\ lastOp = "subjDone" /\ astronautId = 2
  /\ View["health"] = Fetched("health", 1) /\ ~HoldsOnly(2)

\* ---- the timeline view ----

tlFrame == <<restFrame, sliceFrame>>

\* a window button: setDays(d); the effect fetches again (App.js:1069-1072, 1048-1058)
SetDays(d) ==
  /\ ~reloadPending /\ TimelineShown
  /\ d \in Windows /\ d # days
  /\ Cardinality(tlReqs) < MaxTimeline
  /\ days' = d
  /\ tlReqs' = TlIssue(tlReqs, d, astronautId)
  /\ lastOp' = "setDays" /\ lastStatus' = "-"
  /\ UNCHANGED <<astronautId, subjBatches, data, tlFrame>>

\* getTimeline settles: setData(result.daily_averages || []) replaces the
\* displayed sequence; the catch only logs (App.js:1050-1055, part_000:1087-1092)
TlResp(r, st) ==
  /\ ~reloadPending
  /\ r \in tlReqs /\ r.st = "pending" /\ st \in OpenStatuses
  /\ tlReqs' = (tlReqs \ {r}) \cup {[r EXCEPT !.st = st]}
  /\ data' = IF st = "ok" /\ r.live THEN [days |-> r.days, subj |-> r.subj] ELSE data
  /\ lastOp' = "tlResp" /\ lastStatus' = st
  /\ UNCHANGED <<astronautId, subjBatches, days, tlFrame>>

\* the views the timeline runs move between
TimelineViews == {"dashboard", "timeline"}

\* a navigation click: mounting HealthTimeline sets days to 7 and fetches,
\* unmounting it drops its state and orphans its requests
TimelineNavClick(v) ==
  /\ v \in TimelineViews
  /\ Nav(v)
  /\ IF ~TimelineShown /\ TimelineShown'
     THEN /\ Cardinality(tlReqs) < MaxTimeline
          /\ days' = 7 /\ data' = NoTimeline
          /\ tlReqs' = TlIssue(tlReqs, 7, astronautId)
     ELSE IF TimelineShown /\ ~TimelineShown'
     THEN /\ days' = 7 /\ data' = NoTimeline
          /\ tlReqs' = Stale(tlReqs)
     ELSE UNCHANGED <<days, data, tlReqs>>
  /\ UNCHANGED <<astronautId, subjBatches, chatVars, alertVars, batchVars, scanVars,
                 drawVars, formVars>>

TimelineNext ==
  \/ \E d \in Windows : SetDays(d)
  \/ \E a \in 1..Len(DefaultAstronauts) : SelectAstronaut(a)
  \/ \E r \in tlReqs, st \in OpenStatuses : TlResp(r, st)
  \/ \E v \in TimelineViews : TimelineNavClick(v)

InitTimeline == Loaded("dashboard") /\ ChatFresh /\ PanelFresh

TimelineSpec == InitTimeline /\ [][TimelineNext]_vars

\* C28: once all issued timeline requests have resolved, the displayed buckets are
\* those returned for the currently selected window and subject, under any order
\* in which the responses resolve
C28_TimelineShowsSelection ==
  (/\ TimelineShown
   /\ \A r \in tlReqs : r.st # "pending"
   /\ \E r \in tlReqs : r.live /\ r.st = "ok" /\ r.days = days /\ r.subj = astronautId)
    => data = [days |-> days, subj |-> astronautId]

\* ==== the busy flags ====

\* the outcomes of a request that is answered without a 401
BusyStatuses == {"ok", "err"}

\* Dashboard.generating: true from generateDemoData's start until its request
\* has settled (App.js:306-317)
generating == reqs["generate"] > 0

\* the views whose component holds a busy flag
BusyViews == {"chat", "facial", "health"}

\* the page has just loaded, or a loaded session shows one of the busy views
InitBusy ==
  \/ Init
  \/ \E v \in BusyViews : Loaded(v) /\ ChatFresh /\ PanelFresh

\* the handlers that raise and lower a busy flag, in a component that stays
\* mounted; every request is answered with a success or a failure
BusyNext ==
  \/ CheckAuth
  \/ \E st \in BusyStatuses : GetMeResp(st)
  \/ \E b \in BOOLEAN : SetIsLogin(b)
  \/ HandleSubmit
  \/ \E k \in {"login", "register"}, st \in BusyStatuses : AuthResp(k, st)
  \/ Poll
  \/ \E st \in BusyStatuses : SummaryResp(TRUE, st)
  \/ \E st \in BusyStatuses : LoadDataResp(st)
  \/ Generate
  \/ \E st \in BusyStatuses : GenerateResp(st)
  \/ Reload
  \/ \E t \in Texts : SetInput(t)
  \/ \E text \in Texts : SendMessage(text)
  \/ \E s \in sends, st \in BusyStatuses : SendResp(s, st)
  \/ Consent
  \/ \E r \in camReqs, granted \in BOOLEAN : CamResp(r, granted)
  \/ PerformScan
  \/ \E s \in scans : ScanDelayDone(s)
  \/ \E s \in scans, st \in BusyStatuses : ScanStoreResp(s, st)
  \/ \E f \in VitalFields, x \in EntryInputs : SetEntry(f, x)
  \/ SubmitVitals
  \/ \E s \in submits, st \in BusyStatuses : SubmitResp(s, st)

\* every request is answered, the scan's timer fires, the startup effect runs
\* and a requested reload happens
BusySpec ==
  /\ InitBusy /\ [][BusyNext]_vars
  /\ WF_vars(CheckAuth)
  /\ WF_vars(\E st \in BusyStatuses : GetMeResp(st))
  /\ WF_vars(\E k \in {"login", "register"}, st \in BusyStatuses : AuthResp(k, st))
  /\ WF_vars(\E st \in BusyStatuses : SummaryResp(TRUE, st))
  /\ WF_vars(\E st \in BusyStatuses : LoadDataResp(st))
  /\ WF_vars(\E st \in BusyStatuses : GenerateResp(st))
  /\ WF_vars(Reload)
  /\ WF_vars(\E s \in sends, st \in BusyStatuses : SendResp(s, st))
  /\ WF_vars(\E s \in scans : ScanDelayDone(s))
  /\ WF_vars(\E s \in scans, st \in BusyStatuses : ScanStoreResp(s, st))
  /\ WF_vars(\E s \in submits, st \in BusyStatuses : SubmitResp(s, st))

\* C30: every busy flag that blocks a user action (chat sending, scan scanning,
\* vitals submitting, demo-data generating, login loading, startup and dashboard
\* loading) eventually returns to false once its request has settled, with a
\* success or with a failure, when every request is answered and no 401 reload
\* intervenes
C30_BusyFlagsEnd ==
  /\ sending ~> ~sending
  /\ scanning ~> ~scanning
  /\ submitting ~> ~submitting
  /\ generating ~> ~generating
  /\ loginLoading ~> ~loginLoading
  /\ loading ~> ~loading
  /\ (TopView = "dashboard" /\ ContentLoading) ~> ~ContentLoading

C30_Witness ==
  /\ lastOp = "sendResp" /\ lastStatus = "err" /\ chatDone.live
  /\ ChatShown /\ ~sending /\ sends = {} /\ sendSeq > 0
====
